---- MODULE Spec2Model ----
(***************************************************************************)
(* A model of the Safaricom Daraja client (class Safaricom): construction, *)
(* the single-slot OAuth token cache (_getAuthToken), the authenticated    *)
(* dispatcher (_makeRequest) and the error normalizer (_handleError).      *)
(*                                                                         *)
(* JavaScript values are tagged records; a JavaScript string is a sequence *)
(* of text chunks, so that concatenation is \o and String.includes is      *)
(* membership of a phrase among the chunks.                                *)
(***************************************************************************)
EXTENDS Integers, Sequences, FiniteSets, TLC

VARIABLES
    options,   \* the options object handed to the constructor
    ctor,      \* outcome of `new Safaricom(options)`: pending / ok / threw
    client,    \* the instance: credentials, baseUrl, token, tokenExpiresAt
    now,       \* Date.now(), in milliseconds
    pc,        \* per invocation of _makeRequest: its position
    req,       \* per invocation: the (endpoint, body) arguments
    resp,      \* per invocation: the token response bound at line 80
    tok,       \* per invocation: the local `token` of _makeRequest
    gets,      \* per invocation: the axios.get call it issued, if any
    posts,     \* per invocation: the axios.post call it issued, if any
    outcome,   \* per invocation: resolved value or rejection
    reply,     \* per invocation: the body of the `response` bound at line 108
    call,      \* the operation invoked and its arguments (operations specification)
    peer,      \* a second client instance (two-client specification)
    inst,      \* per invocation: the instance it was made on, 0 before (two-client specification)
    failure,   \* the value handed to _handleError (normalizer specification)
    report     \* what _handleError did with it

vars == <<options, ctor, client, now, pc, req, resp, tok, gets, posts,
          outcome, reply, call, peer, inst, failure, report>>

-----------------------------------------------------------------------------
(* JavaScript values *)

Undefined == [t |-> "undefined"]
Null == [t |-> "null"]
NaN == [t |-> "NaN"]
Str(s) == [t |-> "string", s |-> s]
Num(n) == [t |-> "number", n |-> n]
Obj(f) == [t |-> "object", f |-> f]
Fn(name) == [t |-> "function", fn |-> name]
Arr(a) == [t |-> "array", a |-> a]

\* a one-chunk string
S(text) == Str(<<text>>)

\* ToBoolean
Truthy(x) ==
    CASE x.t = "undefined" -> FALSE
      [] x.t = "null" -> FALSE
      [] x.t = "NaN" -> FALSE
      [] x.t = "string" -> x.s # <<>>
      [] x.t = "number" -> x.n # 0
      [] OTHER -> TRUE

\* a || b
Or(a, b) == IF Truthy(a) THEN a ELSE b

\* o.k for a value o that is not null or undefined
Get(o, k) ==
    IF o.t = "object" /\ k \in DOMAIN o.f THEN o.f[k] ELSE Undefined

\* true where o.k throws a TypeError
Nullish(o) == o.t \in {"undefined", "null"}

RECURSIVE JoinText(_)
\* Array.prototype.join(",") over an array of strings, as chunks
JoinText(a) ==
    IF a = <<>> THEN <<>>
    ELSE IF Len(a) = 1 THEN a[1].s
    ELSE a[1].s \o <<",">> \o JoinText(Tail(a))

\* String(x) and template-literal interpolation, as chunks
Text(x) ==
    CASE x.t = "string" -> x.s
      [] x.t = "number" -> <<ToString(x.n)>>
      [] x.t = "undefined" -> <<"undefined">>
      [] x.t = "null" -> <<"null">>
      [] x.t = "NaN" -> <<"NaN">>
      [] x.t = "function" -> <<"function ", x.fn, "() { [native code] }">>
      [] x.t = "array" -> JoinText(x.a)
      [] OTHER -> <<"[object Object]">>

\* a thrown or returned Error object
Err(name, message) == [name |-> name, message |-> message]

-----------------------------------------------------------------------------
(* Construction *)

SandboxUrl == S("https://sandbox.safaricom.co.ke")
ProductionUrl == S("https://api.safaricom.co.ke")

\* the property names every object literal inherits from Object.prototype
ObjectPrototypeKeys ==
    {"constructor", "toString", "valueOf", "hasOwnProperty", "__proto__",
     "isPrototypeOf", "propertyIsEnumerable", "toLocaleString"}

\* BASE_URLS[key]: own properties first, then the prototype chain
BASE_URLS(key) ==
    CASE key = <<"sandbox">> -> SandboxUrl
      [] key = <<"production">> -> ProductionUrl
      [] Len(key) = 1 /\ key[1] \in ObjectPrototypeKeys ->
            IF key[1] = "__proto__" THEN Obj([constructor |-> Fn("Object")])
            ELSE Fn(key[1])
      [] OTHER -> Undefined

RequiredMessage == <<"Consumer key, consumer secret, and shortcode are required.">>

InvalidEnvironmentMessage(env) ==
    <<"Invalid environment specified: ">> \o Text(env)
        \o <<". Use 'sandbox' or 'production'.">>

\* the fields the constructor assigns
Instance(o, environment, baseUrl) ==
    [consumerKey |-> o.consumerKey,
     consumerSecret |-> o.consumerSecret,
     shortCode |-> o.shortCode,
     passkey |-> o.passkey,
     initiatorName |-> o.initiatorName,
     securityCredential |-> o.securityCredential,
     environment |-> environment,
     baseUrl |-> baseUrl,
     token |-> Null,
     tokenExpiresAt |-> Null]

\* mutant of New: the required-options test joined with && instead of ||
NewRequiresAnyOne(o) ==
    IF ~Truthy(o.consumerKey) /\ ~Truthy(o.consumerSecret) /\ ~Truthy(o.shortCode)
    THEN [threw |-> TRUE, error |-> Err("Error", RequiredMessage)]
    ELSE LET environment == Or(o.environment, S("sandbox"))
             baseUrl == BASE_URLS(Text(environment))
         IN IF ~Truthy(baseUrl)
            THEN [threw |-> TRUE,
                  error |-> Err("Error", InvalidEnvironmentMessage(environment))]
            ELSE [threw |-> FALSE, obj |-> Instance(o, environment, baseUrl)]

\* new Safaricom(o): [threw, error] or [threw, obj]
New(o) ==
    IF ~Truthy(o.consumerKey) \/ ~Truthy(o.consumerSecret) \/ ~Truthy(o.shortCode)
    THEN [threw |-> TRUE, error |-> Err("Error", RequiredMessage)]
    ELSE LET environment == Or(o.environment, S("sandbox"))
             baseUrl == BASE_URLS(Text(environment))
         IN IF ~Truthy(baseUrl)
            THEN [threw |-> TRUE,
                  error |-> Err("Error", InvalidEnvironmentMessage(environment))]
            ELSE [threw |-> FALSE, obj |-> Instance(o, environment, baseUrl)]

-----------------------------------------------------------------------------
(* _handleError *)

\* JSON.stringify of a field value: strings are quoted
JsonValue(x) == IF x.t = "string" THEN <<"\"">> \o x.s \o <<"\"">> ELSE Text(x)

\* JSON.stringify(data) for a body that is not null or undefined
Stringify(data) ==
    CASE data.t = "string" -> Str(<<"\"">> \o data.s \o <<"\"">>)
      [] data.t = "number" -> Str(<<ToString(data.n)>>)
      [] data.t = "object" ->
            Str(<<"{">>
                \o (IF "errorCode" \in DOMAIN data.f
                    THEN <<"\"errorCode\":">> \o JsonValue(data.f.errorCode) ELSE <<>>)
                \o (IF "fault" \in DOMAIN data.f THEN <<"\"fault\":{..}">> ELSE <<>>)
                \o (IF "ResultCode" \in DOMAIN data.f
                    THEN <<"\"ResultCode\":">> \o JsonValue(data.f.ResultCode) ELSE <<>>)
                \o (IF "errorMessage" \in DOMAIN data.f
                    THEN <<"\"errorMessage\":">> \o JsonValue(data.f.errorMessage)
                    ELSE <<>>)
                \o (IF "ResultDesc" \in DOMAIN data.f
                    THEN <<"\"ResultDesc\":">> \o JsonValue(data.f.ResultDesc) ELSE <<>>)
                \o <<"}">>)
      [] OTHER -> Str(<<"[json]">>)

\* mutant of ErrorCodeOf: ResultCode is consulted first
ErrorCodeResultFirst(data) ==
    Or(Or(Get(data, "ResultCode"),
          IF Truthy(Get(data, "fault")) THEN Get(Get(data, "fault"), "code") ELSE Null),
       Get(data, "errorCode"))

\* data.errorCode || (data.fault ? data.fault.code : null) || data.ResultCode
ErrorCodeOf(data) ==
    Or(Or(Get(data, "errorCode"),
          IF Truthy(Get(data, "fault")) THEN Get(Get(data, "fault"), "code") ELSE Null),
       Get(data, "ResultCode"))

\* data.errorMessage || (data.fault ? data.fault.faultstring : null)
\*   || data.ResultDesc || JSON.stringify(data)
ErrorMessageOf(data) ==
    Or(Or(Or(Get(data, "errorMessage"),
             IF Truthy(Get(data, "fault"))
             THEN Get(Get(data, "fault"), "faultstring") ELSE Null),
          Get(data, "ResultDesc")),
       Stringify(data))

\* x.includes exists: String.prototype.includes or Array.prototype.includes
HasIncludes(x) == x.t \in {"string", "array"}

\* mutant of Includes: the phrase must be the whole message
IncludesWhole(x, phrase) ==
    IF x.t = "string" THEN x.s = <<phrase>>
    ELSE \E i \in 1..Len(x.a) : x.a[i] = S(phrase)

\* x.includes(phrase), for x with HasIncludes(x)
Includes(x, phrase) ==
    IF x.t = "string" THEN \E i \in 1..Len(x.s) : x.s[i] = phrase
    ELSE \E i \in 1..Len(x.a) : x.a[i] = S(phrase)

\* the case labels of the switch, in source order (duplicates included)
CaseLabels ==
    <<"400.008.01", "400.008.02", "404.001.04", "400.002.05", "400.003.01",
      "1", "1001", "1019", "1025", "1032", "1037", "2001",
      "15", "17", "18", "20", "21", "26", "2001",
      "2001",
      "4102", "4104", "4201", "4203",
      "500.003.1001", "409">>

\* the cases whose body calls errorMessage.includes
IncludesCases == {25, 26}

\* mutant of MatchedCase: the clause of 1032 has no break and falls through
\* to the clause of 1037
MatchedCaseFallThrough(code) ==
    IF code = <<"1032">> THEN 11
    ELSE IF \E i \in 1..Len(CaseLabels) : <<CaseLabels[i]>> = code
    THEN CHOOSE i \in 1..Len(CaseLabels) :
            /\ <<CaseLabels[i]>> = code
            /\ \A j \in 1..(i - 1) : <<CaseLabels[j]>> # code
    ELSE 0

\* mutant of MatchedCase: the last matching label is entered
MatchedCaseLast(code) ==
    IF \E i \in 1..Len(CaseLabels) : <<CaseLabels[i]>> = code
    THEN CHOOSE i \in 1..Len(CaseLabels) :
            /\ <<CaseLabels[i]>> = code
            /\ \A j \in (i + 1)..Len(CaseLabels) : <<CaseLabels[j]>> # code
    ELSE 0

\* the clause a switch on `code` enters: the first matching label, 0 for default
MatchedCase(code) ==
    IF \E i \in 1..Len(CaseLabels) : <<CaseLabels[i]>> = code
    THEN CHOOSE i \in 1..Len(CaseLabels) :
            /\ <<CaseLabels[i]>> = code
            /\ \A j \in 1..(i - 1) : <<CaseLabels[j]>> # code
    ELSE 0

InvalidInitiatorMessage ==
    <<"Invalid Initiator Information. The 'initiatorName' or 'securityCredential' you provided is incorrect. Please check your credentials on the Safaricom Developer Portal.">>

\* userMessage as assigned by clause i
UserMessage(i, status, errorMessage) ==
    CASE i = 1 -> <<"Authentication Failed. Please check if your Consumer Key and Consumer Secret are correct. The Daraja API returned: ">> \o Text(errorMessage)
      [] i = 2 -> <<"Invalid Grant Type. The library sent 'client_credentials' as required, but the API rejected it. This may be a temporary issue with the API. The Daraja API returned: ">> \o Text(errorMessage)
      [] i = 3 -> <<"Invalid Authentication Header. This can happen if the access token is missing or incorrect. The Daraja API returned: ">> \o Text(errorMessage)
      [] i = 4 -> <<"Invalid Request Payload. Please check that all required parameters for this API call are correct and have the right format. The Daraja API returned: ">> \o Text(errorMessage)
      [] i = 5 -> <<"Invalid Access Token. Your token has likely expired. ", "The library will automatically try to get a new one on the next request.", " The Daraja API returned: ">> \o Text(errorMessage)
      [] i = 6 -> <<"Insufficient Funds. The customer's M-Pesa account has insufficient funds to complete the transaction. Please advise the customer to top up or use Fuliza.">>
      [] i = 7 -> <<"Transaction in Progress. The customer has another M-Pesa transaction in progress. Please advise them to complete or cancel the other transaction before retrying.">>
      [] i = 8 -> <<"Transaction Expired. The request took too long to process and has expired. Please try initiating the transaction again.">>
      [] i = 9 -> <<"An internal error occurred while sending the push request. This might be a temporary issue with the M-Pesa service. Please try again shortly.">>
      [] i = 10 -> <<"Request ", "Cancelled", " by User. The customer ", "cancelled", " the M-Pesa PIN entry prompt on their phone.">>
      [] i = 11 -> <<"STK Push Timeout. The request ", "timed out", " because the customer's phone was ", "unreachable", " or they did not respond in time. Please ensure the customer's phone is online and advise them to try again.">>
      [] i = 12 -> <<"Invalid PIN. The customer entered the wrong M-Pesa PIN. Please ask them to try again with the correct PIN.">>
      [] i = 13 -> <<"Duplicate Request. A request with the same unique identifier has already been processed. Please ensure each request has a unique OriginatorConversationID.">>
      [] i = 14 -> <<"Internal Failure. An unspecified error occurred within the M-Pesa system. Please try again later.">>
      [] i = 15 -> <<"Initiator Credential Check Failure. The Security Credential provided is incorrect. Please verify and encrypt your initiator password again.">>
      [] i = 16 -> <<"Unresolved Initiator. The InitiatorName you provided could not be found. Please check your credentials.">>
      [] i = 17 -> <<"Permission Failure. The initiator does not have permission to perform this action on the specified shortcode.">>
      [] i = 18 -> <<"System Busy. The M-Pesa system is currently experiencing high traffic. Please try your request again in a few moments.">>
      [] i = 19 -> InvalidInitiatorMessage
      [] i = 20 -> InvalidInitiatorMessage
      [] i = 21 -> <<"Merchant KYC Fail. There is an issue with the merchant's account details (KYC). Please ensure the merchant's account is fully compliant.">>
      [] i = 22 -> <<"Missing Nominated Number. The merchant's Till Number is not properly configured with a nominated phone number on the M-Pesa portal.">>
      [] i \in {23, 24} -> <<"USSD Network Error. There was a problem with the USSD network when trying to send the prompt to the merchant. This is often temporary. Please try again.">>
      [] i = 25 ->
            IF Includes(errorMessage, "already registered")
            THEN <<"URLs are already registered for this ShortCode. In the production environment, you can only register URLs once. To change them, please contact Safaricom API support.">>
            ELSE IF Includes(errorMessage, "Duplicate notification info")
            THEN <<"Duplicate URLs. You may have registered these URLs on another platform (like the old aggregator platform). Please contact Safaricom support to have the old URLs deleted before registering here.">>
            ELSE <<"An internal server error occurred at the API. Please try again later. Details: ">> \o Text(errorMessage)
      [] i = 26 ->
            IF Includes(errorMessage, "Biller already Registered")
            THEN <<"This shortcode is already opted into Bill Manager. You do not need to opt-in again.">>
            ELSE IF Includes(errorMessage, "Invalid consumerkey/shortcode")
            THEN <<"Invalid credentials. Please ensure the 'consumerKey' and 'shortCode' you are using are correct and linked.">>
            ELSE IF Includes(errorMessage, "Another entry exist")
            THEN <<"Duplicate Invoice. An invoice with this 'externalReference' number already exists. Please use a unique reference for each invoice.">>
            ELSE IF Includes(errorMessage, "Incorrect phone number format")
            THEN <<"Invalid Phone Number. Please ensure the 'billedPhoneNumber' is a valid Safaricom number in the format 07XXXXXXXX.">>
            ELSE IF Includes(errorMessage, "Incorrect due date format")
            THEN <<"Invalid Date Format. Please ensure the 'dueDate' is in the format YYYY-MM-DD.">>
            ELSE IF Includes(errorMessage, "cannot be cancelled")
            THEN <<"Invoice Cannot Be Cancelled. The invoice has likely been partially or fully paid. Only unpaid invoices can be cancelled.">>
            ELSE <<"A conflict error occurred. The API returned: ">> \o Text(errorMessage)
      [] OTHER -> <<"The ", "API request failed with status ", "code ">>
                    \o Text(status)
                    \o <<". The API returned the following message: ">>
                    \o Text(errorMessage)

NoResponseMessage ==
    <<"The request failed because no response was received from the Safaricom server. This could be due to a network issue or the Daraja API being temporarily unavailable. Please check your internet connection and try again.">>

SetupMessage(error) ==
    <<"An unexpected error occurred while setting up the API request: ">>
        \o Text(Get(error, "message"))

\* mutant of _handleError: the no-response message quotes the failure's own text
_handleErrorEchoesCause(error) ==
    IF Truthy(Get(error, "response"))
    THEN LET status == Get(Get(error, "response"), "status")
             data == Get(Get(error, "response"), "data")
         IN IF Nullish(data)
            THEN [threw |-> TRUE,
                  error |-> Err("TypeError",
                                <<"Cannot read properties of ">> \o Text(data)
                                    \o <<" (reading 'errorCode')">>)]
            ELSE LET errorCode == ErrorCodeOf(data)
                     errorMessage == ErrorMessageOf(data)
                     i == MatchedCase(Text(errorCode))
                 IN IF i \in IncludesCases /\ ~HasIncludes(errorMessage)
                    THEN [threw |-> TRUE,
                          error |-> Err("TypeError",
                                        <<"errorMessage.includes is not a function">>)]
                    ELSE [threw |-> FALSE,
                          value |-> Err("Error", UserMessage(i, status, errorMessage))]
    ELSE IF Truthy(Get(error, "request"))
    THEN [threw |-> FALSE,
          value |-> Err("Error", NoResponseMessage \o Text(Get(error, "message")))]
    ELSE [threw |-> FALSE, value |-> Err("Error", SetupMessage(error))]

\* mutant of _handleError: error.request is tested before error.response
_handleErrorRequestFirst(error) ==
    IF Truthy(Get(error, "request"))
    THEN [threw |-> FALSE, value |-> Err("Error", NoResponseMessage)]
    ELSE IF Truthy(Get(error, "response"))
    THEN LET status == Get(Get(error, "response"), "status")
             data == Get(Get(error, "response"), "data")
         IN IF Nullish(data)
            THEN [threw |-> TRUE,
                  error |-> Err("TypeError",
                                <<"Cannot read properties of ">> \o Text(data)
                                    \o <<" (reading 'errorCode')">>)]
            ELSE LET errorCode == ErrorCodeOf(data)
                     errorMessage == ErrorMessageOf(data)
                     i == MatchedCase(Text(errorCode))
                 IN IF i \in IncludesCases /\ ~HasIncludes(errorMessage)
                    THEN [threw |-> TRUE,
                          error |-> Err("TypeError",
                                        <<"errorMessage.includes is not a function">>)]
                    ELSE [threw |-> FALSE,
                          value |-> Err("Error", UserMessage(i, status, errorMessage))]
    ELSE IF Truthy(Get(error, "request"))
    THEN [threw |-> FALSE, value |-> Err("Error", NoResponseMessage)]
    ELSE [threw |-> FALSE, value |-> Err("Error", SetupMessage(error))]

\* this._handleError(error): [threw |-> FALSE, value] when it returns an Error,
\* [threw |-> TRUE, error] when evaluating it throws
_handleError(error) ==
    IF Truthy(Get(error, "response"))
    THEN LET status == Get(Get(error, "response"), "status")
             data == Get(Get(error, "response"), "data")
         IN IF Nullish(data)
            THEN [threw |-> TRUE,
                  error |-> Err("TypeError",
                                <<"Cannot read properties of ">> \o Text(data)
                                    \o <<" (reading 'errorCode')">>)]
            ELSE LET errorCode == ErrorCodeOf(data)
                     errorMessage == ErrorMessageOf(data)
                     i == MatchedCase(Text(errorCode))
                 IN IF i \in IncludesCases /\ ~HasIncludes(errorMessage)
                    THEN [threw |-> TRUE,
                          error |-> Err("TypeError",
                                        <<"errorMessage.includes is not a function">>)]
                    ELSE [threw |-> FALSE,
                          value |-> Err("Error", UserMessage(i, status, errorMessage))]
    ELSE IF Truthy(Get(error, "request"))
    THEN [threw |-> FALSE, value |-> Err("Error", NoResponseMessage)]
    ELSE [threw |-> FALSE, value |-> Err("Error", SetupMessage(error))]

-----------------------------------------------------------------------------
(* Bounds and inputs *)

NumCalls == 2          \* invocations of _makeRequest on the client
StartNow == 100000     \* Date.now() when the client is constructed
TickMs == 1000         \* granularity of the clock
MaxTicks == 2          \* the clock stops after this many ticks
MaxNumeral == 99       \* numeric strings "0".."99" convert to numbers
SafetyMarginSeconds == 60
MsPerSecond == 1000

Invocations == 1..NumCalls

\* a local or field that has not been assigned
Unset == [t |-> "unset"]

\* the options of the test suite (mockOptions)
MockOptions ==
    [consumerKey |-> S("test_key"), consumerSecret |-> S("test_secret"),
     shortCode |-> S("600988"), passkey |-> S("test_passkey"),
     initiatorName |-> S("test_initiator"),
     securityCredential |-> S("test_credential"),
     environment |-> S("sandbox")]

\* (endpoint, body) pairs handed to _makeRequest
Requests ==
    {[endpoint |-> "/mpesa/stkpush/v1/processrequest",
      body |-> Obj([Amount |-> Num(1)])]}

\* bodies the token endpoint answers with on a 2xx
TokenBodies ==
    {Obj([access_token |-> S("tokA"), expires_in |-> Num(61)]),
     Obj([access_token |-> S("tokB"), expires_in |-> S("62")]),
     Obj([access_token |-> S("tokA"), expires_in |-> Num(60)]),
     Obj([access_token |-> S("tokB")]),
     Obj([expires_in |-> Num(61)]),
     Null}

\* bodies a target endpoint answers with on a 2xx
TargetBodies ==
    {Obj([message |-> S("Success")]),
     Obj([ResponseCode |-> S("0"), ConversationID |-> S("AG_1")])}

\* an axios error: response / request / message as axios sets them
AxiosError(response, request, message) ==
    Obj([response |-> response, request |-> request, message |-> S(message)])

Response(status, data) == Obj([status |-> Num(status), data |-> data])

XHR == Obj([method |-> S("request")])

ExpiredTokenFailure ==
    AxiosError(Response(401, Obj([errorCode |-> S("400.003.01"),
                                  errorMessage |-> S("Invalid Access Token")])),
               XHR, "Request failed with status code 401")

NullBodyFailure ==
    AxiosError(Response(500, Null), XHR, "Request failed with status code 500")

NoResponseFailure == AxiosError(Undefined, XHR, "Network Error")

SetupFailure == AxiosError(Undefined, Undefined, "Converting circular structure to JSON")

\* the failures the transport answers a call of the pipeline with
TransportFailures == {ExpiredTokenFailure, NullBodyFailure, NoResponseFailure}

\* the failures of a target call: those, and a body that cannot be serialized
TargetFailures == TransportFailures \cup {SetupFailure}

-----------------------------------------------------------------------------
(* Numbers *)

\* ToNumber, for the values a token response carries in expires_in
ToNumber(x) ==
    CASE x.t = "number" -> x
      [] x.t = "null" -> Num(0)
      [] x.t = "string" ->
            IF \E n \in 0..MaxNumeral : x.s = <<ToString(n)>>
            THEN Num(CHOOSE n \in 0..MaxNumeral : x.s = <<ToString(n)>>)
            ELSE IF x.s = <<>> THEN Num(0) ELSE NaN
      [] OTHER -> NaN

\* a - b, a * b and a + b on numbers (NaN is contagious)
Minus(a, b) ==
    IF ToNumber(a).t = "NaN" \/ ToNumber(b).t = "NaN" THEN NaN
    ELSE Num(ToNumber(a).n - ToNumber(b).n)

Times(a, b) ==
    IF ToNumber(a).t = "NaN" \/ ToNumber(b).t = "NaN" THEN NaN
    ELSE Num(ToNumber(a).n * ToNumber(b).n)

Plus(a, b) == IF a.t = "NaN" \/ b.t = "NaN" THEN NaN ELSE Num(a.n + b.n)

\* a > b for a number or NaN a and a number b
Greater(a, b) == a.t = "number" /\ b.t = "number" /\ a.n > b.n

\* Buffer.from(s).toString("base64"), kept symbolic
Base64(s) == <<"base64(">> \o s \o <<")">>

-----------------------------------------------------------------------------
(* _getAuthToken and _makeRequest *)

\* mutant of CacheValid: >= instead of >
CacheValidAtExpiry(c, t) ==
    /\ Truthy(c.token)
    /\ Truthy(c.tokenExpiresAt)
    /\ c.tokenExpiresAt.t = "number" /\ c.tokenExpiresAt.n >= t

\* mutant of CacheValid: the comparison reversed
CacheValidReversed(c, t) ==
    /\ Truthy(c.token)
    /\ Truthy(c.tokenExpiresAt)
    /\ Greater(Num(t), c.tokenExpiresAt)

\* mutant of CacheValid: the slot is never reused
CacheValidNever(c, t) == FALSE

\* this.token && this.tokenExpiresAt && this.tokenExpiresAt > Date.now()
CacheValid(c, t) ==
    /\ Truthy(c.token)
    /\ Truthy(c.tokenExpiresAt)
    /\ Greater(c.tokenExpiresAt, Num(t))

\* mutant of ExpiryInstant: the safety margin left out
ExpiryNoMargin(t, expires_in) == Plus(Num(t), Times(expires_in, Num(MsPerSecond)))

\* Date.now() + (expires_in - 60) * 1000
ExpiryInstant(t, expires_in) ==
    Plus(Num(t), Times(Minus(expires_in, Num(SafetyMarginSeconds)), Num(MsPerSecond)))

\* the axios.get call of _getAuthToken
TokenRequest(c) ==
    [url |-> Text(c.baseUrl) \o <<"/oauth/v1/generate?grant_type=client_credentials">>,
     Authorization |-> <<"Basic ">>
        \o Base64(Text(c.consumerKey) \o <<":">> \o Text(c.consumerSecret))]

\* mutant of TargetRequest: the header is built from the slot of the client
\* object at hand, not from the token the invocation was given
TargetRequestFromSlot(c, r, token) ==
    [url |-> Text(c.baseUrl) \o <<r.endpoint>>,
     body |-> r.body,
     Authorization |-> <<"Bearer ">> \o Text(c.token),
     ContentType |-> "application/json"]

\* the axios.post call of _makeRequest
TargetRequest(c, r, token) ==
    [url |-> Text(c.baseUrl) \o <<r.endpoint>>,
     body |-> r.body,
     Authorization |-> <<"Bearer ">> \o Text(token),
     ContentType |-> "application/json"]

\* a promise rejected with what `throw this._handleError(error)` throws
Rejected(error) ==
    LET h == _handleError(error)
    IN [state |-> "rejected", error |-> IF h.threw THEN h.error ELSE h.value]

Resolved(value) == [state |-> "resolved", value |-> value]

\* _makeRequest(endpoint, body) is invoked and runs _getAuthToken up to its
\* first await: the cache check, and the axios.get call on a miss.  On a hit
\* the continuation of `await this._getAuthToken()` reads nothing another
\* invocation writes, so the axios.post call is part of the same step.
Call(p, r) ==
    /\ ctor.state = "ok"
    /\ pc[p] = "idle"
    /\ \A q \in Invocations : q < p => pc[q] # "idle"
    /\ req' = [req EXCEPT ![p] = r]
    /\ IF CacheValid(client, now)
       THEN /\ tok' = [tok EXCEPT ![p] = client.token]
            /\ posts' = [posts EXCEPT ![p] =
                            Append(@, TargetRequest(client, r, client.token))]
            /\ pc' = [pc EXCEPT ![p] = "awaitPost"]
            /\ gets' = gets
       ELSE /\ gets' = [gets EXCEPT ![p] = Append(@, TokenRequest(client))]
            /\ pc' = [pc EXCEPT ![p] = "awaitGet"]
            /\ UNCHANGED <<tok, posts>>
    /\ UNCHANGED <<options, ctor, client, now, resp, outcome, reply, call, peer, inst, failure, report>>

\* mutant of GetOk: the fetched token is also written over consumerSecret
GetOkClobbersSecret(p, data) ==
    /\ pc[p] = "awaitGet"
    /\ resp' = [resp EXCEPT ![p] = Obj([data |-> data])]
    /\ IF Nullish(data)
       THEN /\ outcome' = [outcome EXCEPT ![p] =
                    Rejected(Obj([message |->
                        Str(<<"Cannot destructure property 'access_token' of 'response.data' as it is ">>
                            \o Text(data) \o <<".">>)]))]
            /\ pc' = [pc EXCEPT ![p] = "rejected"]
            /\ UNCHANGED <<client, tok, posts>>
       ELSE /\ client' = [client EXCEPT
                    !.token = Get(data, "access_token"),
                    !.consumerSecret = Get(data, "access_token"),
                    !.tokenExpiresAt = ExpiryInstant(now, Get(data, "expires_in"))]
            /\ tok' = [tok EXCEPT ![p] = client'.token]
            /\ posts' = [posts EXCEPT ![p] =
                            Append(@, TargetRequest(client, req[p], client'.token))]
            /\ pc' = [pc EXCEPT ![p] = "awaitPost"]
            /\ outcome' = outcome
    /\ UNCHANGED <<options, ctor, now, req, gets, reply, call, peer, inst, failure, report>>

\* mutant of GetOk: only the token is stored when the response arrives, the
\* expiry is left as it was
GetOkTokenOnly(p, data) ==
    /\ pc[p] = "awaitGet"
    /\ resp' = [resp EXCEPT ![p] = Obj([data |-> data])]
    /\ IF Nullish(data)
       THEN /\ outcome' = [outcome EXCEPT ![p] =
                    Rejected(Obj([message |->
                        Str(<<"Cannot destructure property 'access_token' of 'response.data' as it is ">>
                            \o Text(data) \o <<".">>)]))]
            /\ pc' = [pc EXCEPT ![p] = "rejected"]
            /\ UNCHANGED <<client, tok, posts>>
       ELSE /\ client' = [client EXCEPT !.token = Get(data, "access_token")]
            /\ tok' = [tok EXCEPT ![p] = client'.token]
            /\ posts' = [posts EXCEPT ![p] =
                            Append(@, TargetRequest(client, req[p], client'.token))]
            /\ pc' = [pc EXCEPT ![p] = "awaitPost"]
            /\ outcome' = outcome
    /\ UNCHANGED <<options, ctor, now, req, gets, reply, call, peer, inst, failure, report>>

\* the token endpoint answers 2xx with body `data`: the slot is written, the
\* token returned, and _makeRequest resumes and calls axios.post
GetOk(p, data) ==
    /\ pc[p] = "awaitGet"
    /\ resp' = [resp EXCEPT ![p] = Obj([data |-> data])]
    /\ IF Nullish(data)
       THEN \* destructuring throws inside the try block
            /\ outcome' = [outcome EXCEPT ![p] =
                    Rejected(Obj([message |->
                        Str(<<"Cannot destructure property 'access_token' of 'response.data' as it is ">>
                            \o Text(data) \o <<".">>)]))]
            /\ pc' = [pc EXCEPT ![p] = "rejected"]
            /\ UNCHANGED <<client, tok, posts>>
       ELSE /\ client' = [client EXCEPT
                    !.token = Get(data, "access_token"),
                    !.tokenExpiresAt = ExpiryInstant(now, Get(data, "expires_in"))]
            /\ tok' = [tok EXCEPT ![p] = client'.token]
            /\ posts' = [posts EXCEPT ![p] =
                            Append(@, TargetRequest(client, req[p], client'.token))]
            /\ pc' = [pc EXCEPT ![p] = "awaitPost"]
            /\ outcome' = outcome
    /\ UNCHANGED <<options, ctor, now, req, gets, reply, call, peer, inst, failure, report>>

\* mutant of GetFail: the failure is swallowed and the request goes out
\* without a token
GetFailSwallowed(p, f) ==
    /\ pc[p] = "awaitGet"
    /\ tok' = [tok EXCEPT ![p] = Undefined]
    /\ posts' = [posts EXCEPT ![p] =
                    Append(@, TargetRequest(client, req[p], Undefined))]
    /\ pc' = [pc EXCEPT ![p] = "awaitPost"]
    /\ UNCHANGED <<options, ctor, client, now, req, resp, gets, outcome,
                   reply, call, peer, inst, failure, report>>

\* mutant of GetFail: a failed token call is tried again
GetFailRetries(p, f) ==
    /\ pc[p] = "awaitGet"
    /\ gets' = [gets EXCEPT ![p] = Append(@, TokenRequest(client))]
    /\ UNCHANGED <<options, ctor, client, now, pc, req, resp, tok, posts, outcome,
                   reply, call, peer, inst, failure, report>>

\* the token call fails with the axios error f
GetFail(p, f) ==
    /\ pc[p] = "awaitGet"
    /\ outcome' = [outcome EXCEPT ![p] = Rejected(f)]
    /\ pc' = [pc EXCEPT ![p] = "rejected"]
    /\ UNCHANGED <<options, ctor, client, now, req, resp, tok, gets, posts,
                   reply, call, peer, inst, failure, report>>

\* mutant of PostOk: the whole response is returned, not its data
PostOkWholeResponse(p, data) ==
    /\ pc[p] = "awaitPost"
    /\ reply' = [reply EXCEPT ![p] = data]
    /\ outcome' = [outcome EXCEPT ![p] =
                      Resolved(Obj([status |-> Num(200), data |-> reply'[p]]))]
    /\ pc' = [pc EXCEPT ![p] = "resolved"]
    /\ UNCHANGED <<options, ctor, client, now, req, resp, tok, gets, posts,
                   call, peer, inst, failure, report>>

\* the target endpoint answers 2xx with body `data`
PostOk(p, data) ==
    /\ pc[p] = "awaitPost"
    /\ reply' = [reply EXCEPT ![p] = data]
    /\ outcome' = [outcome EXCEPT ![p] = Resolved(reply'[p])]
    /\ pc' = [pc EXCEPT ![p] = "resolved"]
    /\ UNCHANGED <<options, ctor, client, now, req, resp, tok, gets, posts,
                   call, peer, inst, failure, report>>

\* mutant of PostFail: a failed target call empties the token slot
PostFailClearsToken(p, f) ==
    /\ pc[p] = "awaitPost"
    /\ outcome' = [outcome EXCEPT ![p] = Rejected(f)]
    /\ pc' = [pc EXCEPT ![p] = "rejected"]
    /\ client' = [client EXCEPT !.token = Null, !.tokenExpiresAt = Null]
    /\ UNCHANGED <<options, ctor, now, req, resp, tok, gets, posts,
                   reply, call, peer, inst, failure, report>>

\* the target call fails with the axios error f
PostFail(p, f) ==
    /\ pc[p] = "awaitPost"
    /\ outcome' = [outcome EXCEPT ![p] = Rejected(f)]
    /\ pc' = [pc EXCEPT ![p] = "rejected"]
    /\ UNCHANGED <<options, ctor, client, now, req, resp, tok, gets, posts,
                   reply, call, peer, inst, failure, report>>

\* time passes
Tick ==
    /\ now < StartNow + MaxTicks * TickMs
    /\ now' = now + TickMs
    /\ UNCHANGED <<options, ctor, client, pc, req, resp, tok, gets, posts,
                   outcome, reply, call, peer, inst, failure, report>>

Init ==
    /\ options = MockOptions
    /\ ctor = [state |-> "ok"]
    /\ client = New(MockOptions).obj
    /\ now = StartNow
    /\ pc = [p \in Invocations |-> "idle"]
    /\ req = [p \in Invocations |-> Unset]
    /\ resp = [p \in Invocations |-> Unset]
    /\ tok = [p \in Invocations |-> Unset]
    /\ gets = [p \in Invocations |-> <<>>]
    /\ posts = [p \in Invocations |-> <<>>]
    /\ outcome = [p \in Invocations |-> Unset]
    /\ reply = [p \in Invocations |-> Unset]
    /\ call = Unset
    /\ peer = Unset
    /\ inst = [p \in Invocations |-> 0]
    /\ failure = Unset
    /\ report = Unset

Next ==
    \/ \E p \in Invocations, r \in Requests : Call(p, r)
    \/ \E p \in Invocations, data \in TokenBodies : GetOk(p, data)
    \/ \E p \in Invocations, f \in TransportFailures : GetFail(p, f)
    \/ \E p \in Invocations, data \in TargetBodies : PostOk(p, data)
    \/ \E p \in Invocations, f \in TargetFailures : PostFail(p, f)
    \/ Tick

Spec == Init /\ [][Next]_vars

-----------------------------------------------------------------------------
(* The operations: each one checks the credential it needs, builds its    *)
(* endpoint and request body, and hands both to _makeRequest.             *)

\* String(n).padStart(2, "0")
PadStart2(n) == IF n < 10 THEN <<"0", ToString(n)>> ELSE <<ToString(n)>>

\* this._getTimestamp() when `new Date()` reads the local time `date`
_getTimestamp(date) ==
    Str(<<ToString(date.year)>> \o PadStart2(date.month + 1)
        \o PadStart2(date.day) \o PadStart2(date.hours)
        \o PadStart2(date.minutes) \o PadStart2(date.seconds))

\* a + b + c where one operand at least is a string
Concat(a, b, c) == Str(Text(a) \o Text(b) \o Text(c))

\* the operation throws `new Error(message)` before building anything
ConfigError(message) == [threw |-> TRUE, error |-> Err("Error", <<message>>)]

\* params.prop throws for a null or undefined params
ParamsError(params, prop) ==
    [threw |-> TRUE,
     error |-> Err("TypeError",
                   <<"Cannot read properties of ">> \o Text(params)
                       \o <<" (reading '", prop, "')">>)]

\* the operation reaches `return this._makeRequest(endpoint, requestBody)`
Built(endpoint, requestBody) ==
    [threw |-> FALSE, endpoint |-> endpoint, body |-> Obj(requestBody)]

\* mutant of stkPush: the password is built from a second reading of the clock
stkPushSecondTimestamp(c, params, date) ==
    IF ~Truthy(c.passkey) THEN ConfigError("Passkey is required for STK Push.")
    ELSE IF Nullish(params) THEN ParamsError(params, "TransactionType")
    ELSE LET timestamp == _getTimestamp(date)
             later == _getTimestamp([date EXCEPT !.seconds = (@ + 1) % 60])
             password == Str(Base64(Concat(c.shortCode, c.passkey, later).s))
         IN Built("/mpesa/stkpush/v1/processrequest",
                  [BusinessShortCode |-> c.shortCode,
                   Password |-> password,
                   Timestamp |-> timestamp,
                   TransactionType |-> Or(Get(params, "TransactionType"),
                                          S("CustomerPayBillOnline")),
                   Amount |-> Get(params, "Amount"),
                   PartyA |-> Get(params, "PhoneNumber"),
                   PartyB |-> c.shortCode,
                   PhoneNumber |-> Get(params, "PhoneNumber"),
                   CallBackURL |-> Get(params, "CallBackURL"),
                   AccountReference |-> Get(params, "AccountReference"),
                   TransactionDesc |-> Get(params, "TransactionDesc")])

\* stkPush once this._getTimestamp() has returned `own`
stkPushAt(c, params, own) ==
    IF ~Truthy(c.passkey) THEN ConfigError("Passkey is required for STK Push.")
    ELSE IF Nullish(params) THEN ParamsError(params, "TransactionType")
    ELSE LET timestamp == own
             password == Str(Base64(Concat(c.shortCode, c.passkey, timestamp).s))
         IN Built("/mpesa/stkpush/v1/processrequest",
                  [BusinessShortCode |-> c.shortCode,
                   Password |-> password,
                   Timestamp |-> timestamp,
                   TransactionType |-> Or(Get(params, "TransactionType"),
                                          S("CustomerPayBillOnline")),
                   Amount |-> Get(params, "Amount"),
                   PartyA |-> Get(params, "PhoneNumber"),
                   PartyB |-> c.shortCode,
                   PhoneNumber |-> Get(params, "PhoneNumber"),
                   CallBackURL |-> Get(params, "CallBackURL"),
                   AccountReference |-> Get(params, "AccountReference"),
                   TransactionDesc |-> Get(params, "TransactionDesc")])

\* stkPush on a client whose _getTimestamp is the method of the class
stkPush(c, params, date) == stkPushAt(c, params, _getTimestamp(date))

\* stkQuery once this._getTimestamp() has returned `own`
stkQueryAt(c, params, own) ==
    IF ~Truthy(c.passkey) THEN ConfigError("Passkey is required for STK Query.")
    ELSE IF Nullish(params) THEN ParamsError(params, "CheckoutRequestID")
    ELSE LET timestamp == own
             password == Str(Base64(Concat(c.shortCode, c.passkey, timestamp).s))
         IN Built("/mpesa/stkpushquery/v1/query",
                  [BusinessShortCode |-> c.shortCode,
                   Password |-> password,
                   Timestamp |-> timestamp,
                   CheckoutRequestID |-> Get(params, "CheckoutRequestID")])

\* stkQuery on a client whose _getTimestamp is the method of the class
stkQuery(c, params, date) == stkQueryAt(c, params, _getTimestamp(date))

\* the test every initiator operation starts with
NoInitiator(c) == ~Truthy(c.initiatorName) \/ ~Truthy(c.securityCredential)

\* mutant of b2c: the credential test joined with && instead of ||
b2cRequiresEither(c, params) ==
    IF ~Truthy(c.initiatorName) /\ ~Truthy(c.securityCredential)
    THEN ConfigError("InitiatorName and SecurityCredential are required for B2C transactions.")
    ELSE IF Nullish(params) THEN ParamsError(params, "CommandID")
    ELSE Built("/mpesa/b2c/v1/paymentrequest",
               [InitiatorName |-> c.initiatorName,
                SecurityCredential |-> c.securityCredential,
                CommandID |-> Or(Get(params, "CommandID"), S("BusinessPayment")),
                Amount |-> Get(params, "Amount"),
                PartyA |-> c.shortCode,
                PartyB |-> Get(params, "PartyB"),
                Remarks |-> Get(params, "Remarks"),
                QueueTimeOutURL |-> Get(params, "QueueTimeOutURL"),
                ResultURL |-> Get(params, "ResultURL"),
                Occasion |-> Get(params, "Occasion")])

\* mutant of b2c: the caller's CommandID is ignored
b2cFixedCommand(c, params) ==
    IF NoInitiator(c)
    THEN ConfigError("InitiatorName and SecurityCredential are required for B2C transactions.")
    ELSE IF Nullish(params) THEN ParamsError(params, "CommandID")
    ELSE Built("/mpesa/b2c/v1/paymentrequest",
               [InitiatorName |-> c.initiatorName,
                SecurityCredential |-> c.securityCredential,
                CommandID |-> S("BusinessPayment"),
                Amount |-> Get(params, "Amount"),
                PartyA |-> c.shortCode,
                PartyB |-> Get(params, "PartyB"),
                Remarks |-> Get(params, "Remarks"),
                QueueTimeOutURL |-> Get(params, "QueueTimeOutURL"),
                ResultURL |-> Get(params, "ResultURL"),
                Occasion |-> Get(params, "Occasion")])

b2c(c, params) ==
    IF NoInitiator(c)
    THEN ConfigError("InitiatorName and SecurityCredential are required for B2C transactions.")
    ELSE IF Nullish(params) THEN ParamsError(params, "CommandID")
    ELSE Built("/mpesa/b2c/v1/paymentrequest",
               [InitiatorName |-> c.initiatorName,
                SecurityCredential |-> c.securityCredential,
                CommandID |-> Or(Get(params, "CommandID"), S("BusinessPayment")),
                Amount |-> Get(params, "Amount"),
                PartyA |-> c.shortCode,
                PartyB |-> Get(params, "PartyB"),
                Remarks |-> Get(params, "Remarks"),
                QueueTimeOutURL |-> Get(params, "QueueTimeOutURL"),
                ResultURL |-> Get(params, "ResultURL"),
                Occasion |-> Get(params, "Occasion")])

transactionStatus(c, params) ==
    IF NoInitiator(c)
    THEN ConfigError("InitiatorName and SecurityCredential are required for Transaction Status Query.")
    ELSE IF Nullish(params) THEN ParamsError(params, "TransactionID")
    ELSE Built("/mpesa/transactionstatus/v1/query",
               [Initiator |-> c.initiatorName,
                SecurityCredential |-> c.securityCredential,
                CommandID |-> S("TransactionStatusQuery"),
                TransactionID |-> Get(params, "TransactionID"),
                PartyA |-> c.shortCode,
                IdentifierType |-> Or(Get(params, "IdentifierType"), S("4")),
                ResultURL |-> Get(params, "ResultURL"),
                QueueTimeOutURL |-> Get(params, "QueueTimeOutURL"),
                Remarks |-> Get(params, "Remarks"),
                Occasion |-> Get(params, "Occasion")])

accountBalance(c, params) ==
    IF NoInitiator(c)
    THEN ConfigError("InitiatorName and SecurityCredential are required for Account Balance Query.")
    ELSE IF Nullish(params) THEN ParamsError(params, "IdentifierType")
    ELSE Built("/mpesa/accountbalance/v1/query",
               [Initiator |-> c.initiatorName,
                SecurityCredential |-> c.securityCredential,
                CommandID |-> S("AccountBalance"),
                PartyA |-> c.shortCode,
                IdentifierType |-> Or(Get(params, "IdentifierType"), S("4")),
                Remarks |-> Or(Get(params, "Remarks"), S("Balance Check")),
                QueueTimeOutURL |-> Get(params, "QueueTimeOutURL"),
                ResultURL |-> Get(params, "ResultURL")])

reversal(c, params) ==
    IF NoInitiator(c)
    THEN ConfigError("InitiatorName and SecurityCredential are required for Reversals.")
    ELSE IF Nullish(params) THEN ParamsError(params, "TransactionID")
    ELSE Built("/mpesa/reversal/v1/request",
               [Initiator |-> c.initiatorName,
                SecurityCredential |-> c.securityCredential,
                CommandID |-> S("TransactionReversal"),
                TransactionID |-> Get(params, "TransactionID"),
                Amount |-> Get(params, "Amount"),
                ReceiverParty |-> c.shortCode,
                RecieverIdentifierType |->
                    Or(Get(params, "RecieverIdentifierType"), S("11")),
                ResultURL |-> Get(params, "ResultURL"),
                QueueTimeOutURL |-> Get(params, "QueueTimeOutURL"),
                Remarks |-> Or(Get(params, "Remarks"), S("Reversal")),
                Occasion |-> Get(params, "Occasion")])

taxRemittance(c, params) ==
    IF NoInitiator(c)
    THEN ConfigError("InitiatorName and SecurityCredential are required for Tax Remittance.")
    ELSE IF Nullish(params) THEN ParamsError(params, "Amount")
    ELSE Built("/mpesa/b2b/v1/remittax",
               [Initiator |-> c.initiatorName,
                SecurityCredential |-> c.securityCredential,
                CommandID |-> S("PayTaxToKRA"),
                SenderIdentifierType |-> S("4"),
                RecieverIdentifierType |-> S("4"),
                Amount |-> Get(params, "Amount"),
                PartyA |-> c.shortCode,
                PartyB |-> S("572572"),
                AccountReference |-> Get(params, "AccountReference"),
                Remarks |-> Or(Get(params, "Remarks"), S("Tax Payment")),
                QueueTimeOutURL |-> Get(params, "QueueTimeOutURL"),
                ResultURL |-> Get(params, "ResultURL")])

b2b(c, params) ==
    IF NoInitiator(c)
    THEN ConfigError("InitiatorName and SecurityCredential are required for B2B transactions.")
    ELSE IF Nullish(params) THEN ParamsError(params, "CommandID")
    ELSE Built("/mpesa/b2b/v1/paymentrequest",
               [Initiator |-> c.initiatorName,
                SecurityCredential |-> c.securityCredential,
                CommandID |-> Or(Get(params, "CommandID"), S("BusinessPayBill")),
                SenderIdentifierType |-> S("4"),
                RecieverIdentifierType |-> S("4"),
                Amount |-> Get(params, "Amount"),
                PartyA |-> c.shortCode,
                PartyB |-> Get(params, "PartyB"),
                AccountReference |-> Get(params, "AccountReference"),
                Requester |-> Get(params, "Requester"),
                Remarks |-> Or(Get(params, "Remarks"), S("Business Payment")),
                QueueTimeOutURL |-> Get(params, "QueueTimeOutURL"),
                ResultURL |-> Get(params, "ResultURL")])

b2cAccountTopUp(c, params) ==
    IF NoInitiator(c)
    THEN ConfigError("InitiatorName and SecurityCredential are required for B2C Account Top Up.")
    ELSE IF Nullish(params) THEN ParamsError(params, "Amount")
    ELSE Built("/mpesa/b2b/v1/paymentrequest",
               [Initiator |-> c.initiatorName,
                SecurityCredential |-> c.securityCredential,
                CommandID |-> S("BusinessPayToBulk"),
                SenderIdentifierType |-> S("4"),
                RecieverIdentifierType |-> S("4"),
                Amount |-> Get(params, "Amount"),
                PartyA |-> c.shortCode,
                PartyB |-> Get(params, "PartyB"),
                AccountReference |-> S("B2C Top Up"),
                Remarks |-> Or(Get(params, "Remarks"), S("B2C Top Up")),
                QueueTimeOutURL |-> Get(params, "QueueTimeOutURL"),
                ResultURL |-> Get(params, "ResultURL")])

Operations ==
    {"stkPush", "stkQuery", "b2c", "transactionStatus", "accountBalance",
     "reversal", "taxRemittance", "b2b", "b2cAccountTopUp"}

\* client[op](params), up to its throw or its call of _makeRequest
Operation(op, c, params, date) ==
    CASE op = "stkPush" -> stkPush(c, params, date)
      [] op = "stkQuery" -> stkQuery(c, params, date)
      [] op = "b2c" -> b2c(c, params)
      [] op = "transactionStatus" -> transactionStatus(c, params)
      [] op = "accountBalance" -> accountBalance(c, params)
      [] op = "reversal" -> reversal(c, params)
      [] op = "taxRemittance" -> taxRemittance(c, params)
      [] op = "b2b" -> b2b(c, params)
      [] op = "b2cAccountTopUp" -> b2cAccountTopUp(c, params)

\* invocation p calls the operation of `call`: an operation that throws
\* rejects its promise with what it threw, any other one is _makeRequest
Invoke(p) ==
    LET b == Operation(call.op, client, call.params, call.date)
    IN IF b.threw
       THEN /\ ctor.state = "ok"
            /\ pc[p] = "idle"
            /\ \A q \in Invocations : q < p => pc[q] # "idle"
            /\ outcome' = [outcome EXCEPT ![p] =
                              [state |-> "rejected", error |-> b.error]]
            /\ pc' = [pc EXCEPT ![p] = "rejected"]
            /\ UNCHANGED <<options, ctor, client, now, req, resp, tok, gets,
                           posts, reply, call, peer, inst, failure, report>>
       ELSE Call(p, [endpoint |-> b.endpoint, body |-> b.body])

\* options with and without the per-operation credentials
CredentialOptions ==
    {[MockOptions EXCEPT !.passkey = pk, !.initiatorName = ini,
                         !.securityCredential = sec] :
        pk \in {Undefined, S("test_passkey")},
        ini \in {Undefined, S("test_initiator")},
        sec \in {Undefined, S("test_credential")}}

\* the token slot of a client: never filled, filled and valid at StartNow,
\* filled and expired at StartNow
Slots ==
    {[token |-> Null, tokenExpiresAt |-> Null],
     [token |-> S("tokA"), tokenExpiresAt |-> ExpiryInstant(StartNow, Num(61))],
     [token |-> S("tokB"), tokenExpiresAt |-> ExpiryInstant(StartNow, Num(60))]}

\* params objects: the ones of the test suite, one naming every optional
\* field, and a missing argument
ParamSet ==
    {Obj([Amount |-> Num(1), PhoneNumber |-> S("254712345678"),
          CallBackURL |-> S("https://example.com/callback"),
          AccountReference |-> S("Test"), TransactionDesc |-> S("Test"),
          PartyB |-> S("254712345678"), Remarks |-> S("Test"),
          QueueTimeOutURL |-> S("https://example.com/timeout"),
          ResultURL |-> S("https://example.com/result")]),
     Obj([Amount |-> Num(100), PhoneNumber |-> S("254700000000"),
          TransactionType |-> S("CustomerBuyGoodsOnline"),
          CheckoutRequestID |-> S("ws_CO_1"),
          CommandID |-> S("SalaryPayment"), PartyB |-> S("600000"),
          TransactionID |-> S("OEI2AK4Q16"), IdentifierType |-> S("2"),
          RecieverIdentifierType |-> S("4"), Requester |-> S("254700000000"),
          Occasion |-> S("Payout")]),
     Undefined}

\* local times `new Date()` reads
Dates ==
    {[year |-> 2023, month |-> 0, day |-> 1, hours |-> 0, minutes |-> 0,
      seconds |-> 0],
     [year |-> 2023, month |-> 11, day |-> 31, hours |-> 23, minutes |-> 59,
      seconds |-> 59]}

Calls == [op : Operations, params : ParamSet, date : Dates]

\* one answer of each kind the transport gives an operation
OpsTokenBodies == {Obj([access_token |-> S("tokA"), expires_in |-> Num(61)])}

OpsFailures == {NoResponseFailure}

InitOps ==
    /\ options \in CredentialOptions
    /\ ctor = [state |-> "ok"]
    /\ \E slot \in Slots :
          client = [New(options).obj EXCEPT
                        !.token = slot.token,
                        !.tokenExpiresAt = slot.tokenExpiresAt]
    /\ call \in Calls
    /\ peer = Unset
    /\ inst = [p \in Invocations |-> 0]
    /\ now = StartNow
    /\ pc = [p \in Invocations |-> "idle"]
    /\ req = [p \in Invocations |-> Unset]
    /\ resp = [p \in Invocations |-> Unset]
    /\ tok = [p \in Invocations |-> Unset]
    /\ gets = [p \in Invocations |-> <<>>]
    /\ posts = [p \in Invocations |-> <<>>]
    /\ outcome = [p \in Invocations |-> Unset]
    /\ reply = [p \in Invocations |-> Unset]
    /\ failure = Unset
    /\ report = Unset

NextOps ==
    \/ \E p \in Invocations : Invoke(p)
    \/ \E p \in Invocations, data \in OpsTokenBodies : GetOk(p, data)
    \/ \E p \in Invocations, f \in OpsFailures : GetFail(p, f)
    \/ \E p \in Invocations, data \in TargetBodies : PostOk(p, data)
    \/ \E p \in Invocations, f \in OpsFailures : PostFail(p, f)
    \/ Tick

SpecOps == InitOps /\ [][NextOps]_vars

-----------------------------------------------------------------------------
(* Two client instances in one process: `client` is instance 1 and `peer`  *)
(* instance 2; every invocation is made on one of them.                    *)

Instances == {1, 2}

\* the options of the second instance: another application's credentials
PeerOptions ==
    [MockOptions EXCEPT !.consumerKey = S("peer_key"),
                        !.consumerSecret = S("peer_secret"),
                        !.shortCode = S("174379"),
                        !.environment = S("production")]

\* `this` of an invocation made on instance i
This(i) == IF i = 1 THEN client ELSE peer

\* the token endpoint issues a token of its own to every request
IssuedTo(p) == Str(<<"token#", ToString(p)>>)

\* expires_in of the token responses
PairLifetimes == {Num(61), Num(60)}

\* _makeRequest(endpoint, body) is invoked on instance i: as Call, with `this`
\* bound to that instance
PairCall(p, i, r) ==
    /\ pc[p] = "idle"
    /\ \A q \in Invocations : q < p => pc[q] # "idle"
    /\ inst' = [inst EXCEPT ![p] = i]
    /\ req' = [req EXCEPT ![p] = r]
    /\ IF CacheValid(This(i), now)
       THEN /\ tok' = [tok EXCEPT ![p] = This(i).token]
            /\ posts' = [posts EXCEPT ![p] =
                            Append(@, TargetRequest(This(i), r, This(i).token))]
            /\ pc' = [pc EXCEPT ![p] = "awaitPost"]
            /\ gets' = gets
       ELSE /\ gets' = [gets EXCEPT ![p] = Append(@, TokenRequest(This(i)))]
            /\ pc' = [pc EXCEPT ![p] = "awaitGet"]
            /\ UNCHANGED <<tok, posts>>
    /\ UNCHANGED <<options, ctor, client, now, resp, outcome, reply, call, peer,
                   failure, report>>

\* mutant of PairGetOk: the slot is a property shared by all instances
PairGetOkSharedSlot(p, e) ==
    /\ pc[p] = "awaitGet"
    /\ LET data == Obj([access_token |-> IssuedTo(p), expires_in |-> e])
       IN /\ resp' = [resp EXCEPT ![p] = Obj([data |-> data])]
          /\ client' = [client EXCEPT
                  !.token = Get(data, "access_token"),
                  !.tokenExpiresAt = ExpiryInstant(now, Get(data, "expires_in"))]
          /\ peer' = [peer EXCEPT
                  !.token = Get(data, "access_token"),
                  !.tokenExpiresAt = ExpiryInstant(now, Get(data, "expires_in"))]
          /\ tok' = [tok EXCEPT ![p] = Get(data, "access_token")]
          /\ posts' = [posts EXCEPT ![p] =
                          Append(@, TargetRequest(This(inst[p]), req[p],
                                                  Get(data, "access_token")))]
          /\ pc' = [pc EXCEPT ![p] = "awaitPost"]
    /\ UNCHANGED <<options, ctor, now, req, gets, outcome, reply, call, inst,
                   failure, report>>

\* the token endpoint answers the fetch of invocation p: as GetOk, the slot
\* written being that of the instance the invocation was made on
PairGetOk(p, e) ==
    /\ pc[p] = "awaitGet"
    /\ LET data == Obj([access_token |-> IssuedTo(p), expires_in |-> e])
       IN /\ resp' = [resp EXCEPT ![p] = Obj([data |-> data])]
          /\ IF inst[p] = 1
             THEN /\ client' = [client EXCEPT
                        !.token = Get(data, "access_token"),
                        !.tokenExpiresAt = ExpiryInstant(now, Get(data, "expires_in"))]
                  /\ peer' = peer
             ELSE /\ peer' = [peer EXCEPT
                        !.token = Get(data, "access_token"),
                        !.tokenExpiresAt = ExpiryInstant(now, Get(data, "expires_in"))]
                  /\ client' = client
          /\ tok' = [tok EXCEPT ![p] = Get(data, "access_token")]
          /\ posts' = [posts EXCEPT ![p] =
                          Append(@, TargetRequest(This(inst[p]), req[p],
                                                  Get(data, "access_token")))]
          /\ pc' = [pc EXCEPT ![p] = "awaitPost"]
    /\ UNCHANGED <<options, ctor, now, req, gets, outcome, reply, call, inst,
                   failure, report>>

InitPair ==
    /\ options = MockOptions
    /\ ctor = [state |-> "ok"]
    /\ client = New(MockOptions).obj
    /\ peer = New(PeerOptions).obj
    /\ inst = [p \in Invocations |-> 0]
    /\ now = StartNow
    /\ pc = [p \in Invocations |-> "idle"]
    /\ req = [p \in Invocations |-> Unset]
    /\ resp = [p \in Invocations |-> Unset]
    /\ tok = [p \in Invocations |-> Unset]
    /\ gets = [p \in Invocations |-> <<>>]
    /\ posts = [p \in Invocations |-> <<>>]
    /\ outcome = [p \in Invocations |-> Unset]
    /\ reply = [p \in Invocations |-> Unset]
    /\ call = Unset
    /\ failure = Unset
    /\ report = Unset

NextPair ==
    \/ \E p \in Invocations, i \in Instances, r \in Requests : PairCall(p, i, r)
    \/ \E p \in Invocations, e \in PairLifetimes : PairGetOk(p, e)
    \/ \E p \in Invocations, f \in OpsFailures : GetFail(p, f)
    \/ \E p \in Invocations, data \in TargetBodies : PostOk(p, data)
    \/ \E p \in Invocations, f \in OpsFailures : PostFail(p, f)
    \/ Tick

SpecPair == InitPair /\ [][NextPair]_vars

-----------------------------------------------------------------------------
(* The operations under a transport that answers every call it is sent *)

\* the transport answers the token call of invocation p, one way or the other
TokenEndpointAnswers(p) ==
    \/ \E data \in OpsTokenBodies : GetOk(p, data)
    \/ \E f \in OpsFailures : GetFail(p, f)

\* the transport answers the target call of invocation p, one way or the other
TargetEndpointAnswers(p) ==
    \/ \E data \in TargetBodies : PostOk(p, data)
    \/ \E f \in OpsFailures : PostFail(p, f)

\* the calls made in these runs: stkPush and b2c with the params of the test
\* suite, on the client of the test suite and on one without a passkey
LiveCalls ==
    {c \in Calls : /\ c.op \in {"stkPush", "b2c"}
                   /\ c.params # Undefined
                   /\ "CommandID" \notin DOMAIN c.params.f
                   /\ c.date.month = 0}

LiveOptions == {MockOptions, [MockOptions EXCEPT !.passkey = Undefined]}

InitLive ==
    /\ options \in LiveOptions
    /\ ctor = [state |-> "ok"]
    /\ client = New(options).obj
    /\ call \in LiveCalls
    /\ peer = Unset
    /\ inst = [p \in Invocations |-> 0]
    /\ now = StartNow
    /\ pc = [p \in Invocations |-> "idle"]
    /\ req = [p \in Invocations |-> Unset]
    /\ resp = [p \in Invocations |-> Unset]
    /\ tok = [p \in Invocations |-> Unset]
    /\ gets = [p \in Invocations |-> <<>>]
    /\ posts = [p \in Invocations |-> <<>>]
    /\ outcome = [p \in Invocations |-> Unset]
    /\ reply = [p \in Invocations |-> Unset]
    /\ failure = Unset
    /\ report = Unset

NextLive ==
    \/ \E p \in Invocations : Invoke(p)
    \/ \E p \in Invocations : TokenEndpointAnswers(p)
    \/ \E p \in Invocations : TargetEndpointAnswers(p)
    \/ Tick

\* every outbound call is eventually answered or failed by the transport
SpecLive ==
    /\ InitLive
    /\ [][NextLive]_vars
    /\ \A p \in Invocations :
          WF_vars(TokenEndpointAnswers(p)) /\ WF_vars(TargetEndpointAnswers(p))

-----------------------------------------------------------------------------
(* Construction, as a specification of its own: every options object of   *)
(* OptionSet is handed to the constructor.                                *)

OptionSet ==
    {[consumerKey |-> k, consumerSecret |-> cs, shortCode |-> sc,
      passkey |-> pk, initiatorName |-> S("test_initiator"),
      securityCredential |-> S("test_credential"), environment |-> e] :
        k \in {Undefined, S("test_key")},
        cs \in {Undefined, S(""), S("test_secret")},
        sc \in {Undefined, S("600988")},
        pk \in {Undefined, S("test_passkey")},
        e \in {Undefined, S(""), S("sandbox"), S("production"), S("invalid"),
               S("Production"), S("constructor"), S("__proto__")}}

\* `new Safaricom(options)` runs
Construct ==
    /\ ctor.state = "pending"
    /\ LET r == New(options)
       IN IF r.threw
          THEN /\ ctor' = [state |-> "threw", error |-> r.error]
               /\ client' = client
          ELSE /\ ctor' = [state |-> "ok"]
               /\ client' = r.obj
    /\ UNCHANGED <<options, now, pc, req, resp, tok, gets, posts, outcome,
                   reply, call, peer, inst, failure, report>>

InitCtor ==
    /\ options \in OptionSet
    /\ ctor = [state |-> "pending"]
    /\ client = Unset
    /\ now = StartNow
    /\ pc = [p \in Invocations |-> "idle"]
    /\ req = [p \in Invocations |-> Unset]
    /\ resp = [p \in Invocations |-> Unset]
    /\ tok = [p \in Invocations |-> Unset]
    /\ gets = [p \in Invocations |-> <<>>]
    /\ posts = [p \in Invocations |-> <<>>]
    /\ outcome = [p \in Invocations |-> Unset]
    /\ reply = [p \in Invocations |-> Unset]
    /\ call = Unset
    /\ peer = Unset
    /\ inst = [p \in Invocations |-> 0]
    /\ failure = Unset
    /\ report = Unset

NextCtor == Construct

SpecCtor == InitCtor /\ [][NextCtor]_vars

-----------------------------------------------------------------------------
(* The error normalizer, as a specification of its own: every failure of  *)
(* Failures is handed to _handleError.                                    *)

CodeValues ==
    {S(CaseLabels[i]) : i \in 1..Len(CaseLabels)}
    \cup {S("999"), Num(1037), Num(1032), Num(0)}

MessageValues ==
    {S("Invalid request"),
     Str(<<"The URLs are ", "already registered", " for this shortcode">>),
     Str(<<"Duplicate notification info", " and ", "already registered">>),
     Str(<<"Another entry exist", "; ", "Biller already Registered">>),
     S("Duplicate notification info"),
     Str(<<"Error: ", "Invalid consumerkey/shortcode">>),
     S("Another entry exist"),
     Str(<<"Incorrect due date format", ", ", "Incorrect phone number format">>),
     Str(<<"Invoice ", "cannot be cancelled", ": ", "Incorrect due date format">>),
     Str(<<"Invoice ", "cannot be cancelled">>),
     Num(500),
     Obj([detail |-> S("Invalid request")]),
     Arr(<<S("already registered")>>)}

ErrorBodies ==
    {Obj([errorCode |-> c, errorMessage |-> m]) : c \in CodeValues, m \in MessageValues}
    \cup {Obj([errorCode |-> c]) : c \in CodeValues}
    \cup {Obj([errorMessage |-> m]) : m \in MessageValues}
    \cup {Obj([fault |-> Obj([code |-> c, faultstring |-> m])]) :
            c \in CodeValues, m \in MessageValues}
    \cup {Obj([ResultCode |-> c, ResultDesc |-> m]) :
            c \in CodeValues, m \in MessageValues}
    \cup {Null, Undefined, S(""), S("<html>502 Bad Gateway</html>")}

\* a field the body does not have
Absent == [t |-> "absent"]

BodyFields == {"errorCode", "fault", "ResultCode", "errorMessage", "ResultDesc"}

\* bodies carrying several of the code and message fields at once, some of
\* them with an empty or zero value
MixedBodies ==
    {Obj([k \in {x \in BodyFields : full[x] # Absent} |-> full[k]]) :
        full \in [errorCode : {Absent, S(""), Num(0), S("2001")},
                  fault : {Absent, Obj([code |-> S("1037"),
                                        faultstring |-> S("Fault text")])},
                  ResultCode : {Absent, S("1032")},
                  errorMessage : {Absent, S(""), S("Invalid request")},
                  ResultDesc : {Absent, S("Result text")}]}

\* failures of a request that was sent and never answered
NoResponseFailures ==
    {AxiosError(Undefined, XHR, "Network Error"),
     AxiosError(Null, XHR, "timeout of 5000ms exceeded"),
     Obj([request |-> XHR, message |-> S("socket hang up"),
          code |-> S("ECONNRESET"),
          config |-> Obj([url |-> S("/oauth/v1/generate")])]),
     Obj([request |-> Obj([path |-> S("/mpesa/stkpush/v1/processrequest")]),
          code |-> S("ECONNABORTED")])}

Failures ==
    {AxiosError(Response(st, d), XHR, "Request failed") :
        st \in {400, 500}, d \in ErrorBodies}
    \cup {AxiosError(Response(400, d), XHR, "Request failed") : d \in MixedBodies}
    \cup {NoResponseFailure, SetupFailure,
          AxiosError(Undefined, Undefined, "timeout of 0ms exceeded")}
    \cup NoResponseFailures
    \cup {AxiosError(Response(400, Obj([errorCode |-> S("1037")])), Undefined,
                     "Request failed"),
          Obj([name |-> S("TypeError")])}

\* _handleError(failure) runs
Normalize ==
    /\ report = Unset
    /\ report' = _handleError(failure)
    /\ UNCHANGED <<options, ctor, client, now, pc, req, resp, tok, gets, posts,
                   outcome, reply, call, peer, inst, failure>>

InitErr ==
    /\ failure \in Failures
    /\ report = Unset
    /\ options = MockOptions
    /\ ctor = [state |-> "ok"]
    /\ client = New(MockOptions).obj
    /\ now = StartNow
    /\ pc = [p \in Invocations |-> "idle"]
    /\ req = [p \in Invocations |-> Unset]
    /\ resp = [p \in Invocations |-> Unset]
    /\ tok = [p \in Invocations |-> Unset]
    /\ gets = [p \in Invocations |-> <<>>]
    /\ posts = [p \in Invocations |-> <<>>]
    /\ outcome = [p \in Invocations |-> Unset]
    /\ reply = [p \in Invocations |-> Unset]
    /\ call = Unset
    /\ peer = Unset
    /\ inst = [p \in Invocations |-> 0]

NextErr == Normalize

SpecErr == InitErr /\ [][NextErr]_vars

-----------------------------------------------------------------------------
(* Properties of construction (checked under SpecCtor) *)

\* the three required options are all given
CredentialsGiven ==
    /\ Truthy(options.consumerKey)
    /\ Truthy(options.consumerSecret)
    /\ Truthy(options.shortCode)

\* C9 (as claimed): with valid credentials, an omitted environment selects the
\* sandbox base URL, 'production' the production base URL, and every other
\* environment string makes construction fail with 'Invalid environment
\* specified'.
C9_EnvironmentSelectsBaseUrl ==
    (ctor.state # "pending" /\ CredentialsGiven) =>
        /\ options.environment = Undefined =>
              /\ ctor.state = "ok"
              /\ client.baseUrl = S("https://sandbox.safaricom.co.ke")
        /\ options.environment = S("production") =>
              /\ ctor.state = "ok"
              /\ client.baseUrl = S("https://api.safaricom.co.ke")
        /\ (/\ options.environment.t = "string"
            /\ options.environment \notin {S("sandbox"), S("production")}) =>
              /\ ctor.state = "threw"
              /\ ctor.error.message[1] = "Invalid environment specified: "

\* C10: construction fails with the 'required' error whenever one of
\* consumerKey, consumerSecret, shortCode is missing, whatever the environment
\* (the check comes first), and every constructed client holds all three.
C10_RequiredCredentials ==
    ctor.state # "pending" =>
        /\ (\/ options.consumerKey = Undefined
            \/ options.consumerSecret = Undefined
            \/ options.shortCode = Undefined) =>
              /\ ctor.state = "threw"
              /\ ctor.error.name = "Error"
              /\ ctor.error.message =
                    <<"Consumer key, consumer secret, and shortcode are required.">>
        /\ ctor.state = "ok" =>
              /\ client.consumerKey = options.consumerKey
              /\ client.consumerSecret = options.consumerSecret
              /\ client.shortCode = options.shortCode
              /\ \A v \in {client.consumerKey, client.consumerSecret, client.shortCode} :
                    v.t = "string" /\ v.s # <<>>

\* C10 witness: a missing key together with an invalid environment is reported
\* as the missing credential.
C10_Witness ==
    /\ ctor.state = "threw"
    /\ options.consumerKey = Undefined
    /\ options.consumerSecret = S("test_secret")
    /\ options.shortCode = S("600988")
    /\ options.environment = S("invalid")
    /\ ctor.error.message[1] = "Consumer key, consumer secret, and shortcode are required."

-----------------------------------------------------------------------------
(* Properties of the normalizer (checked under SpecErr) *)

\* C8 (as claimed): _handleError returns an Error with a descriptive message
\* for every failure it is handed, and never throws.
C8_NormalizerTotal ==
    report # Unset =>
        /\ ~report.threw
        /\ report.value.name = "Error"
        /\ report.value.message # <<>>

-----------------------------------------------------------------------------
(* Properties of the token cache and the dispatcher (checked under Spec) *)

RECURSIVE CountUpTo(_, _)
CountUpTo(f, n) == IF n = 0 THEN 0 ELSE Len(f[n]) + CountUpTo(f, n - 1)

\* calls made to the token endpoint / to target endpoints so far
TokenCalls == CountUpTo(gets, NumCalls)
TargetCalls == CountUpTo(posts, NumCalls)

\* the slot holds a token, and the current instant is before its expiry
TokenCached == client.token.t = "string" /\ client.token.s # <<>>
BeforeExpiry == client.tokenExpiresAt.t = "number" /\ now < client.tokenExpiresAt.n
Warm == TokenCached /\ BeforeExpiry

\* the step in which invocation p is made
Calling(p) == pc[p] = "idle" /\ pc'[p] # "idle"

Finished(p) == pc[p] \in {"resolved", "rejected"}

\* expires_in as a number of seconds
Seconds(e) ==
    IF e.t = "number" THEN e.n
    ELSE CHOOSE n \in 0..MaxNumeral : e.s = <<ToString(n)>>

\* C1: a call made while a token is cached and now < tokenExpiresAt gets the
\* cached token and issues no token call; a call made with no token cached or
\* at/after tokenExpiresAt gets no cached token: it issues a token call, and the
\* token it later holds is the one of its own token response.
C1_CachedTokenIffValid ==
    /\ [][\A p \in Invocations : Calling(p) =>
            IF Warm
            THEN gets' = gets /\ tok'[p] = client.token /\ client' = client
            ELSE Len(gets'[p]) = 1 /\ tok'[p] = Unset]_vars
    /\ [](\A p \in Invocations : (gets[p] # <<>> /\ tok[p] # Unset) =>
            tok[p] = Get(Get(resp[p], "data"), "access_token"))

\* C1 witness: the second invocation was served from the cache.
C1_Witness ==
    /\ Len(gets[1]) = 1 /\ tok[1] = S("tokA")
    /\ pc[2] # "idle" /\ gets[2] = <<>> /\ tok[2] = S("tokA")

\* C2: a call made within the validity window of the cached token issues no
\* token call and one target call and leaves the slot as it is, and issues
\* nothing after that; so a call that filled the cache and a call made within
\* the window make one token call and two target calls between them.
C2_TokenReuse ==
    /\ [][\A q \in Invocations : (Calling(q) /\ Warm) =>
            /\ TokenCalls' = TokenCalls
            /\ TargetCalls' = TargetCalls + 1
            /\ client' = client]_vars
    /\ [][\A q \in Invocations : (pc[q] = "awaitPost" /\ pc'[q] # "awaitPost") =>
            gets' = gets /\ posts' = posts]_vars
    /\ [](\A p, q \in Invocations :
            (/\ p # q
             /\ gets[p] # <<>> /\ tok[p] # Unset
             /\ pc[q] # "idle" /\ gets[q] = <<>>) =>
                /\ Len(gets[p]) + Len(gets[q]) = 1
                /\ Len(posts[p]) + Len(posts[q]) = 2)

\* C2 witness: two consecutive calls, the second within the window, both
\* completed: one token call, two target calls.
C2_Witness ==
    /\ pc[1] = "resolved" /\ pc[2] = "resolved"
    /\ Len(gets[1]) = 1 /\ gets[2] = <<>>
    /\ TokenCalls = 1 /\ TargetCalls = 2

\* C3: a call made while the token is absent or expired issues exactly one
\* token call, and its target call is issued only in the step that receives
\* the token response, carrying the token of that response.
C3_RefreshBeforeTarget ==
    /\ [][\A p \in Invocations : (Calling(p) /\ ~Warm) =>
            Len(gets'[p]) = 1 /\ posts'[p] = <<>>]_vars
    /\ [][\A p \in Invocations :
            (gets[p] # <<>> /\ posts[p] = <<>> /\ posts'[p] # <<>>) =>
                /\ pc[p] = "awaitGet" /\ resp[p] = Unset /\ resp'[p] # Unset
                /\ posts'[p][1].Authorization =
                      <<"Bearer ">> \o Text(Get(Get(resp'[p], "data"), "access_token"))]_vars
    /\ [](\A p \in Invocations :
            /\ Len(gets[p]) <= 1
            /\ (gets[p] # <<>> /\ posts[p] # <<>>) => resp[p] # Unset)

\* C3 witness: an invocation found an expired token, fetched, and then posted.
C3_Witness ==
    /\ Len(gets[1]) = 1 /\ Len(gets[2]) = 1
    /\ tok[1] = S("tokA") /\ tok[2] = S("tokB")
    /\ Len(posts[2]) = 1 /\ posts[2][1].Authorization = <<"Bearer ", "tokB">>

\* C4: a successful fetch stores the fetched access_token with
\* tokenExpiresAt = now + (expires_in - 60) * 1000 ms for every expires_in the
\* server returns; for expires_in <= 60 that instant is not in the future, it
\* stays so until the next fetch, and a call finding it so fetches again.
C4_ExpiryWithMargin ==
    /\ [][\A p \in Invocations : (pc[p] = "awaitGet" /\ pc'[p] = "awaitPost") =>
            LET data == Get(resp'[p], "data")
                e == Get(data, "expires_in")
            IN /\ client'.token = Get(data, "access_token")
               /\ e # Undefined =>
                    /\ client'.tokenExpiresAt = Num(now + (Seconds(e) - 60) * 1000)
                    /\ Seconds(e) <= 60 => client'.tokenExpiresAt.n <= now]_vars
    /\ [][(/\ client.tokenExpiresAt.t = "number"
           /\ client.tokenExpiresAt.n <= now
           /\ client'.tokenExpiresAt = client.tokenExpiresAt) =>
                client'.tokenExpiresAt.n <= now']_vars
    /\ [][\A q \in Invocations :
            (/\ Calling(q)
             /\ client.tokenExpiresAt.t = "number"
             /\ client.tokenExpiresAt.n <= now) =>
                Len(gets'[q]) = 1 /\ tok'[q] = Unset]_vars

\* C4 witness: a token with expires_in = 60 was stored and the next call
\* fetched again.
C4_Witness ==
    /\ resp[1] = Obj([data |-> Obj([access_token |-> S("tokA"), expires_in |-> Num(60)])])
    /\ now = StartNow
    /\ Len(gets[2]) = 1
    /\ resp[2] = Obj([data |-> Obj([access_token |-> S("tokB"), expires_in |-> S("62")])])
    /\ client.tokenExpiresAt = Num(StartNow + 2000)

\* C5 (as claimed): a failed token fetch rejects with the normalized error (an
\* Error built by _handleError) and leaves token and tokenExpiresAt as they were.
C5_FailedFetchKeepsSlot ==
    [][\A p \in Invocations : (pc[p] = "awaitGet" /\ pc'[p] = "rejected") =>
            /\ client' = client
            /\ outcome'[p].state = "rejected"
            /\ outcome'[p].error.name = "Error"]_vars

\* C6 (as claimed): every finished invocation has made exactly one target call.
C6_OneTargetCallAlways ==
    \A p \in Invocations : Finished(p) => Len(posts[p]) = 1

\* the token call of p ended without a usable response
TokenCallFailed(p) ==
    /\ gets[p] # <<>>
    /\ pc[p] # "awaitGet"
    /\ (resp[p] = Unset \/ Nullish(Get(resp[p], "data")))

\* C6 (amended): an invocation makes one token call when the cache is cold or
\* expired and none when it is warm; it makes exactly one target call once it
\* has a token, and none when its token call failed.
C6_CallsPerInvocation ==
    /\ [][\A p \in Invocations : Calling(p) =>
            Len(gets'[p]) = (IF Warm THEN 0 ELSE 1)]_vars
    /\ [](\A p \in Invocations :
            /\ Len(gets[p]) <= 1
            /\ Len(posts[p]) <= 1
            /\ TokenCallFailed(p) => (posts[p] = <<>> /\ pc[p] = "rejected")
            /\ (pc[p] \notin {"idle", "awaitGet"} /\ ~TokenCallFailed(p)) =>
                    Len(posts[p]) = 1)

\* C6 witness: an invocation whose token call failed made no target call,
\* while another finished with one target call.
C6_Witness ==
    /\ pc[1] = "rejected" /\ Len(gets[1]) = 1 /\ posts[1] = <<>>
    /\ pc[2] = "resolved" /\ Len(gets[2]) = 1 /\ Len(posts[2]) = 1

\* the rejection of p reports provider code 400.003.01 for its target call
RejectedAsExpired(p) ==
    /\ pc[p] = "rejected"
    /\ posts[p] # <<>>
    /\ outcome[p].error.name = "Error"
    /\ outcome[p].error.message[1] = "Invalid Access Token. Your token has likely expired. "

\* C7 (as claimed): once a target call was rejected with 400.003.01, the next
\* call made on the client while the rejected token is still the cached one
\* fetches a new token instead of sending the rejected one again.
C7_RenewAfterExpiredRejection ==
    [][\A p, q \in Invocations :
        (/\ RejectedAsExpired(p)
         /\ posts[p][1].Authorization = <<"Bearer ">> \o Text(client.token)
         /\ Calling(q)) =>
            /\ Len(gets'[q]) = 1
            /\ posts'[q] = <<>>]_vars

-----------------------------------------------------------------------------
(* Properties of the operations (checked under SpecOps) *)

PasskeyOperations == {"stkPush", "stkQuery"}

\* the caller configured the client without the credential `op` needs
MissingCredential(op) ==
    IF op \in PasskeyOperations
    THEN options.passkey = Undefined
    ELSE options.initiatorName = Undefined \/ options.securityCredential = Undefined

\* the configuration error of each operation
ConfigurationError(op) ==
    CASE op = "stkPush" -> "Passkey is required for STK Push."
      [] op = "stkQuery" -> "Passkey is required for STK Query."
      [] op = "b2c" ->
            "InitiatorName and SecurityCredential are required for B2C transactions."
      [] op = "transactionStatus" ->
            "InitiatorName and SecurityCredential are required for Transaction Status Query."
      [] op = "accountBalance" ->
            "InitiatorName and SecurityCredential are required for Account Balance Query."
      [] op = "reversal" ->
            "InitiatorName and SecurityCredential are required for Reversals."
      [] op = "taxRemittance" ->
            "InitiatorName and SecurityCredential are required for Tax Remittance."
      [] op = "b2b" ->
            "InitiatorName and SecurityCredential are required for B2B transactions."
      [] op = "b2cAccountTopUp" ->
            "InitiatorName and SecurityCredential are required for B2C Account Top Up."

\* C11: an operation invoked on a client that lacks the credential it needs
\* (passkey for stkPush and stkQuery; initiatorName or securityCredential for
\* the seven initiator operations) is rejected with that operation's
\* configuration error and makes no token call and no target call, whatever
\* its params and whatever the token slot holds.
C11_MissingCredentialFailsBeforeNetwork ==
    \A p \in Invocations :
        (pc[p] # "idle" /\ MissingCredential(call.op)) =>
            /\ pc[p] = "rejected"
            /\ outcome[p] = [state |-> "rejected",
                             error |-> Err("Error", <<ConfigurationError(call.op)>>)]
            /\ gets[p] = <<>>
            /\ posts[p] = <<>>
            /\ req[p] = Unset

\* C11 witness: b2c without a securityCredential, called with no params on a
\* client whose cached token is valid, has been rejected.
C11_Witness ==
    /\ call.op = "b2c"
    /\ call.params = Undefined
    /\ options.initiatorName # Undefined
    /\ options.securityCredential = Undefined
    /\ Warm
    /\ pc[1] = "rejected"

\* the request body of the target call invocation p issued
SentBody(p) == posts[p][1].body.f

\* C12: the body stkPush and stkQuery send on a client with a passkey carries
\* BusinessShortCode = shortCode, Timestamp = the one value _getTimestamp
\* returned for the call, and Password = base64(shortCode + passkey +
\* Timestamp) over that same body's Timestamp.
C12_PasswordFromOneTimestamp ==
    \A p \in Invocations :
        (call.op \in PasskeyOperations /\ posts[p] # <<>>) =>
            /\ SentBody(p).BusinessShortCode = options.shortCode
            /\ SentBody(p).Timestamp = _getTimestamp(call.date)
            /\ SentBody(p).Password =
                  Str(<<"base64(">> \o options.shortCode.s \o options.passkey.s
                        \o SentBody(p).Timestamp.s \o <<")">>)

\* C12 witness: stkPush of the test suite (shortCode 600988, passkey
\* test_passkey, clock at 2023-01-01 00:00:00) has sent its request.
C12_Witness ==
    /\ call.op = "stkPush"
    /\ call.date.year = 2023 /\ call.date.month = 0 /\ call.date.seconds = 0
    /\ options.shortCode = S("600988")
    /\ options.passkey = S("test_passkey")
    /\ posts[1] # <<>>
    /\ SentBody(1).Timestamp.s = <<"2023", "0", "1", "0", "1", "0", "0", "0", "0", "0", "0">>

-----------------------------------------------------------------------------
(* Properties of the error normalizer (checked under SpecErr) *)

\* the failure carries a response whose body can be inspected
ServerResponded(f) ==
    /\ Truthy(Get(f, "response"))
    /\ ~Nullish(Get(Get(f, "response"), "data"))

ResponseData(f) == Get(Get(f, "response"), "data")

\* the code extracted from the failure is none of the lookup table's
UnmappedCode(f) == MatchedCase(Text(ErrorCodeOf(ResponseData(f)))) = 0

\* `pattern` occurs in `text`
ContainsText(text, pattern) ==
    \E i \in 0..(Len(text) - Len(pattern)) :
        SubSeq(text, i + 1, i + Len(pattern)) = pattern

\* C13 (as claimed, and as the test suite expects): a server-responded failure
\* with an unmapped or absent code is reported with a message that contains
\* 'API request failed with status <status>: <message>'.
C13_GenericFallbackText ==
    (report # Unset /\ ServerResponded(failure) /\ UnmappedCode(failure)) =>
        /\ ~report.threw
        /\ ContainsText(report.value.message,
                        <<"API request failed with status ">>
                            \o Text(Get(Get(failure, "response"), "status"))
                            \o <<": ">>
                            \o Text(ErrorMessageOf(ResponseData(failure))))

\* the request of the failure was sent and no response came back
NoResponseReceived(f) ==
    ~Truthy(Get(f, "response")) /\ Truthy(Get(f, "request"))

\* C14: a failure whose request was sent and never answered is normalized to
\* one fixed 'no response was received' Error, whatever else the failure
\* carries (its message, code, config or request object).
C14_NoResponseFixedMessage ==
    (report # Unset /\ NoResponseReceived(failure)) =>
        report = [threw |-> FALSE,
                  value |-> Err("Error",
                                <<"The request failed because no response was received from the Safaricom server. This could be due to a network issue or the Daraja API being temporarily unavailable. Please check your internet connection and try again.">>)]

\* C14 witness: a reset connection to the token endpoint, with its own message
\* and code, has been normalized.
C14_Witness ==
    /\ report # Unset
    /\ NoResponseReceived(failure)
    /\ Get(failure, "code") = S("ECONNRESET")
    /\ Get(failure, "message") = S("socket hang up")

-----------------------------------------------------------------------------
(* Properties of the dispatcher under the operations (checked under SpecOps) *)

\* C15: when the target endpoint answers 2xx, the operation resolves, and it
\* resolves with exactly the body of that response, for every operation.
C15_ResolvesWithResponseBody ==
    \A p \in Invocations :
        /\ reply[p] # Unset =>
              /\ pc[p] = "resolved"
              /\ outcome[p] = [state |-> "resolved", value |-> reply[p]]
        /\ pc[p] = "resolved" => (reply[p] # Unset /\ posts[p] # <<>>)

\* C15 witness: accountBalance resolved with the body the endpoint returned,
\* and that body is not the other one the endpoint can return.
C15_Witness ==
    /\ call.op = "accountBalance"
    /\ pc[1] = "resolved"
    /\ reply[1] = Obj([ResponseCode |-> S("0"), ConversationID |-> S("AG_1")])
    /\ outcome[1].value = reply[1]

-----------------------------------------------------------------------------
(* Properties of the token cache and the dispatcher under failures and    *)
(* concurrent invocations (checked under Spec)                            *)

\* the step in which an outbound call of invocation p fails
CallFails(p) == pc[p] \in {"awaitGet", "awaitPost"} /\ pc'[p] = "rejected"

\* C16 (as claimed): a failed token call or target call ends its operation:
\* the operation is rejected with one normalized Error, issues no further
\* call, and never resolves afterwards.
C16_FailureIsTerminal ==
    /\ [][\A p \in Invocations : CallFails(p) =>
            /\ gets'[p] = gets[p]
            /\ posts'[p] = posts[p]
            /\ outcome'[p].state = "rejected"
            /\ outcome'[p].error.name = "Error"]_vars
    /\ [][\A p \in Invocations : pc[p] = "rejected" =>
            /\ pc'[p] = "rejected"
            /\ gets'[p] = gets[p]
            /\ posts'[p] = posts[p]
            /\ outcome'[p] = outcome[p]]_vars

\* a failed call is terminal, whatever the rejection carries
NoRetryNoSwallow ==
    /\ [][\A p \in Invocations : CallFails(p) =>
            /\ gets'[p] = gets[p]
            /\ posts'[p] = posts[p]
            /\ outcome'[p].state = "rejected"]_vars
    /\ [][\A p \in Invocations : pc[p] = "rejected" =>
            /\ pc'[p] = "rejected"
            /\ gets'[p] = gets[p]
            /\ posts'[p] = posts[p]
            /\ outcome'[p] = outcome[p]]_vars

\* the step in which the token fetch of invocation p completes
FetchCompletes(p) == pc[p] = "awaitGet" /\ pc'[p] = "awaitPost"

\* the instants the clock of the model can show
Instants == {StartNow + k * TickMs : k \in 0..MaxTicks}

\* the expiry a response carrying expires_in = e yields when handled at t
SlotExpiry(t, e) ==
    IF e = Undefined THEN NaN ELSE Num(t + (Seconds(e) - 60) * 1000)

\* both fields of the slot come from the token response invocation p received
SlotFrom(p) ==
    /\ resp[p] # Unset
    /\ ~Nullish(Get(resp[p], "data"))
    /\ client.token = Get(Get(resp[p], "data"), "access_token")
    /\ \E t \in Instants :
          client.tokenExpiresAt =
              SlotExpiry(t, Get(Get(resp[p], "data"), "expires_in"))

\* C17: calls made while the slot is invalid each fetch a token of their own;
\* every completed fetch overwrites the slot with its own response, so the
\* last one to complete wins; the slot changes in no other step, and in every
\* state its two fields are both unset or both from one token response.
C17_LastWriterWinsNoTornSlot ==
    /\ [][\A p \in Invocations : (Calling(p) /\ ~Warm) => Len(gets'[p]) = 1]_vars
    /\ [][\A p \in Invocations : FetchCompletes(p) =>
            /\ client'.token = Get(Get(resp'[p], "data"), "access_token")
            /\ client'.tokenExpiresAt =
                  SlotExpiry(now, Get(Get(resp'[p], "data"), "expires_in"))]_vars
    /\ [][client' # client => \E p \in Invocations : FetchCompletes(p)]_vars
    /\ []((client.token = Null /\ client.tokenExpiresAt = Null)
            \/ \E p \in Invocations : SlotFrom(p))

\* C17 witness: two invocations fetched at the same instant (the second was
\* made while the first was waiting for its token), the second one's fetch
\* completed first, and the slot holds what the first one's fetch wrote last.
C17_Witness ==
    /\ now = StartNow
    /\ Len(gets[1]) = 1 /\ Len(gets[2]) = 1
    /\ resp[1] = Obj([data |-> Obj([access_token |-> S("tokA"), expires_in |-> Num(61)])])
    /\ resp[2] = Obj([data |-> Obj([access_token |-> S("tokB"), expires_in |-> S("62")])])
    /\ tok[2] = S("tokB")
    /\ client.token = S("tokA")
    /\ client.tokenExpiresAt = Num(StartNow + 1000)

\* the token _getAuthToken returned to invocation p: the cached one on a hit,
\* the access_token of its own response on a miss
TokenReturnedTo(p) ==
    IF gets[p] = <<>> THEN tok[p]
    ELSE Get(Get(resp[p], "data"), "access_token")

TokenFailures ==
    TransportFailures
    \cup {Obj([message |->
                Str(<<"Cannot destructure property 'access_token' of 'response.data' as it is ">>
                    \o Text(d) \o <<".">>)]) : d \in {Null, Undefined}}

\* e is what _handleError returns for a token failure, and not that value
\* normalized a second time
NormalizedOnce(e) ==
    \E f \in TokenFailures :
        /\ ~_handleError(f).threw
        /\ e = _handleError(f).value

\* C20 (as claimed): when obtaining the token fails, _makeRequest is rejected
\* with the normalized error of that failure, normalized once, and makes no
\* target call, then or later.
C20_TokenFailurePropagates ==
    /\ [][\A p \in Invocations : (pc[p] = "awaitGet" /\ pc'[p] = "rejected") =>
            /\ outcome'[p].state = "rejected"
            /\ NormalizedOnce(outcome'[p].error)
            /\ posts'[p] = <<>>]_vars
    /\ [](\A p \in Invocations : TokenCallFailed(p) => posts[p] = <<>>)

\* a failed token fetch is passed on as _getAuthToken threw it and is followed
\* by no target call, whatever the rejection carries
TokenFailureNotRewrapped ==
    /\ [][\A p \in Invocations : (pc[p] = "awaitGet" /\ pc'[p] = "rejected") =>
            /\ outcome'[p].state = "rejected"
            /\ \E f \in TokenFailures :
                  outcome'[p].error = (IF _handleError(f).threw
                                       THEN _handleError(f).error
                                       ELSE _handleError(f).value)
            /\ posts'[p] = <<>>]_vars
    /\ [](\A p \in Invocations : TokenCallFailed(p) => posts[p] = <<>>)

-----------------------------------------------------------------------------
(* Properties of the B2C request body (checked under SpecOps) *)

-----------------------------------------------------------------------------
(* Properties of code and message extraction (checked under SpecErr) *)

Has(d, k) == d.t = "object" /\ k \in DOMAIN d.f

\* the first field the body has, in the order errorCode, fault.code, ResultCode
FirstPresentCode(d) ==
    IF Has(d, "errorCode") THEN Get(d, "errorCode")
    ELSE IF Has(d, "fault") THEN Get(Get(d, "fault"), "code")
    ELSE Get(d, "ResultCode")

\* the first field the body has, in the order errorMessage, fault.faultstring,
\* ResultDesc, and the dump of the body when it has none
FirstPresentMessage(d) ==
    IF Has(d, "errorMessage") THEN Get(d, "errorMessage")
    ELSE IF Has(d, "fault") THEN Get(Get(d, "fault"), "faultstring")
    ELSE IF Has(d, "ResultDesc") THEN Get(d, "ResultDesc")
    ELSE Stringify(d)

\* the first field with a truthy value, in the same order
FirstTruthyCode(d) ==
    IF Truthy(Get(d, "errorCode")) THEN Get(d, "errorCode")
    ELSE IF Truthy(Get(d, "fault")) /\ Truthy(Get(Get(d, "fault"), "code"))
    THEN Get(Get(d, "fault"), "code")
    ELSE Get(d, "ResultCode")

FirstTruthyMessage(d) ==
    IF Truthy(Get(d, "errorMessage")) THEN Get(d, "errorMessage")
    ELSE IF Truthy(Get(d, "fault")) /\ Truthy(Get(Get(d, "fault"), "faultstring"))
    THEN Get(Get(d, "fault"), "faultstring")
    ELSE IF Truthy(Get(d, "ResultDesc")) THEN Get(d, "ResultDesc")
    ELSE Stringify(d)

\* the message reported for a body from which `code` and `message` are taken
ReportedFor(code, message) ==
    report.value.message =
        UserMessage(MatchedCase(Text(code)),
                    Get(Get(failure, "response"), "status"), message)

\* a server-responded failure has been normalized to an Error
Normalized == report # Unset /\ ServerResponded(failure) /\ ~report.threw

\* C21 (as claimed): the code is the first field present among errorCode,
\* fault.code, ResultCode and the message the first present among
\* errorMessage, fault.faultstring, ResultDesc, else the dump of the body; a
\* present higher-priority field always wins.
C21_FirstPresentWins ==
    Normalized =>
        ReportedFor(FirstPresentCode(ResponseData(failure)),
                    FirstPresentMessage(ResponseData(failure)))

\* C21 (amended): the code and the message are the first fields with a truthy
\* value in those orders; a higher-priority field wins when its value is
\* truthy, and is passed over when it is empty, zero or null.
C21_FirstTruthyWins ==
    Normalized =>
        ReportedFor(FirstTruthyCode(ResponseData(failure)),
                    FirstTruthyMessage(ResponseData(failure)))

\* C21 witness: a body with errorCode, fault and ResultCode, and with an empty
\* errorMessage beside a fault string, has been normalized by its errorCode.
C21_Witness ==
    /\ Normalized
    /\ Get(ResponseData(failure), "errorCode") = S("2001")
    /\ Has(ResponseData(failure), "fault")
    /\ Get(ResponseData(failure), "ResultCode") = S("1032")
    /\ Get(ResponseData(failure), "errorMessage") = S("")
    /\ report.value.message = UserMessage(MatchedCase(<<"2001">>), Num(400), S("Fault text"))

-----------------------------------------------------------------------------
(* Properties of the sub-cases of 500.003.1001 and 409 (checked under SpecErr) *)

\* the phrases looked for under code 500.003.1001, in order, with their texts
ServerFaultPhrases ==
    <<[phrase |-> "already registered",
       text |-> "URLs are already registered for this ShortCode. In the production environment, you can only register URLs once. To change them, please contact Safaricom API support."],
      [phrase |-> "Duplicate notification info",
       text |-> "Duplicate URLs. You may have registered these URLs on another platform (like the old aggregator platform). Please contact Safaricom support to have the old URLs deleted before registering here."]>>

ServerFaultGeneric == "An internal server error occurred at the API. Please try again later. Details: "

\* the phrases looked for under code 409, in order, with their texts
ConflictPhrases ==
    <<[phrase |-> "Biller already Registered",
       text |-> "This shortcode is already opted into Bill Manager. You do not need to opt-in again."],
      [phrase |-> "Invalid consumerkey/shortcode",
       text |-> "Invalid credentials. Please ensure the 'consumerKey' and 'shortCode' you are using are correct and linked."],
      [phrase |-> "Another entry exist",
       text |-> "Duplicate Invoice. An invoice with this 'externalReference' number already exists. Please use a unique reference for each invoice."],
      [phrase |-> "Incorrect phone number format",
       text |-> "Invalid Phone Number. Please ensure the 'billedPhoneNumber' is a valid Safaricom number in the format 07XXXXXXXX."],
      [phrase |-> "Incorrect due date format",
       text |-> "Invalid Date Format. Please ensure the 'dueDate' is in the format YYYY-MM-DD."],
      [phrase |-> "cannot be cancelled",
       text |-> "Invoice Cannot Be Cancelled. The invoice has likely been partially or fully paid. Only unpaid invoices can be cancelled."]>>

ConflictGeneric == "A conflict error occurred. The API returned: "

\* the text message m contains the phrase
Mentions(m, phrase) == \E i \in 1..Len(m.s) : m.s[i] = phrase

\* the text for message m: that of the earliest phrase of the table m
\* contains, and the generic text followed by m when it contains none
SubCaseText(phrases, generic, m) ==
    IF \E i \in 1..Len(phrases) : Mentions(m, phrases[i].phrase)
    THEN <<phrases[CHOOSE i \in 1..Len(phrases) :
                    /\ Mentions(m, phrases[i].phrase)
                    /\ \A j \in 1..(i - 1) : ~Mentions(m, phrases[j].phrase)].text>>
    ELSE <<generic>> \o m.s

ExtractedCode == Text(ErrorCodeOf(ResponseData(failure)))
ExtractedMessage == ErrorMessageOf(ResponseData(failure))

\* C22: under codes 500.003.1001 and 409 the reported text is that of the
\* earliest phrase, in the fixed order of the code, that the extracted
\* provider message contains, and the code's generic text when it contains
\* none; a message containing several phrases gets the earliest one's text.
C22_FirstPhraseWins ==
    (/\ report # Unset
     /\ ServerResponded(failure)
     /\ ExtractedMessage.t = "string") =>
        /\ ExtractedCode = <<"500.003.1001">> =>
              report = [threw |-> FALSE,
                        value |-> Err("Error",
                            SubCaseText(ServerFaultPhrases, ServerFaultGeneric,
                                        ExtractedMessage))]
        /\ ExtractedCode = <<"409">> =>
              report = [threw |-> FALSE,
                        value |-> Err("Error",
                            SubCaseText(ConflictPhrases, ConflictGeneric,
                                        ExtractedMessage))]

\* C22 witness: under code 409 a message naming 'Another entry exist' before
\* 'Biller already Registered' has been reported as the biller sub-case.
C22_Witness ==
    /\ report # Unset
    /\ ServerResponded(failure)
    /\ ExtractedCode = <<"409">>
    /\ ExtractedMessage = Str(<<"Another entry exist", "; ", "Biller already Registered">>)
    /\ report.value.message = <<ConflictPhrases[1].text>>

-----------------------------------------------------------------------------
(* Properties of the code table (checked under SpecErr) *)

PhraseCodes == {<<"500.003.1001">>, <<"409">>}

\* the extracted code, as a string, is one of the table's
ListedCode ==
    \E i \in 1..Len(CaseLabels) : ExtractedCode = <<CaseLabels[i]>>

\* a number other than 0
Numeric(x) == x.t = "number" /\ x.n # 0

\* the body of the failure with the code it is extracted from, when that is a
\* number, turned into the string of the same digits
WithStringCode(d) ==
    IF Truthy(Get(d, "errorCode"))
    THEN IF Numeric(d.f.errorCode)
         THEN Obj([d.f EXCEPT !.errorCode = Str(Text(@))]) ELSE d
    ELSE IF Truthy(Get(d, "fault")) /\ Truthy(Get(d.f.fault, "code"))
    THEN IF Numeric(Get(d.f.fault, "code"))
         THEN Obj([d.f EXCEPT !.fault = Obj([@.f EXCEPT !.code = Str(Text(@))])])
         ELSE d
    ELSE IF Numeric(Get(d, "ResultCode"))
    THEN Obj([d.f EXCEPT !.ResultCode = Str(Text(@))])
    ELSE d

\* C23: a failure whose code is in the table is reported with the text of that
\* code's clause and never with the generic fallback; the clause is selected
\* by the string form of the code, so a numeric code is reported as the string
\* of the same digits is; the text of 1037 speaks of 'timed out' and
\* 'unreachable', that of 1032 of 'cancelled', and neither uses the other's words.
C23_ListedCodesHaveOwnMessage ==
    (/\ report # Unset
     /\ ServerResponded(failure)
     /\ ListedCode
     /\ (ExtractedCode \in PhraseCodes => ExtractedMessage.t = "string")) =>
        /\ ~report.threw
        /\ ~ContainsText(report.value.message, <<"API request failed with status ">>)
        /\ report.value.message =
              UserMessage(MatchedCase(ExtractedCode),
                          Get(Get(failure, "response"), "status"), ExtractedMessage)
        /\ report =
              _handleError(AxiosError(
                  Response(Get(Get(failure, "response"), "status").n,
                           WithStringCode(ResponseData(failure))),
                  Get(failure, "request"), "Request failed"))
        /\ ExtractedCode = <<"1037">> =>
              /\ ContainsText(report.value.message, <<"timed out">>)
              /\ ContainsText(report.value.message, <<"unreachable">>)
              /\ ~ContainsText(report.value.message, <<"cancelled">>)
        /\ ExtractedCode = <<"1032">> =>
              /\ ContainsText(report.value.message, <<"cancelled">>)
              /\ ~ContainsText(report.value.message, <<"timed out">>)
              /\ ~ContainsText(report.value.message, <<"unreachable">>)

\* C23 witness: a failure carrying the number 1037 as its ResultCode has been
\* reported with the timeout text.
C23_Witness ==
    /\ report # Unset
    /\ ServerResponded(failure)
    /\ Get(ResponseData(failure), "ResultCode") = Num(1037)
    /\ ~report.threw
    /\ ContainsText(report.value.message, <<"timed out">>)

-----------------------------------------------------------------------------
(* Properties of the classification of failures (checked under SpecErr) *)

\* the report is that of the unreachable category
UnreachableReport ==
    /\ ~report.threw
    /\ report.value.message =
          <<"The request failed because no response was received from the Safaricom server. This could be due to a network issue or the Daraja API being temporarily unavailable. Please check your internet connection and try again.">>

\* the report is that of the local category, and quotes the failure's own
\* description
LocalReport ==
    /\ ~report.threw
    /\ report.value.message =
          <<"An unexpected error occurred while setting up the API request: ">>
              \o Text(Get(failure, "message"))

\* the report is what the server-responded branch makes of the response: the
\* text of the clause its code selects, or the TypeError of a body it cannot read
ServerReport ==
    IF report.threw THEN report.error.name = "TypeError"
    ELSE /\ ~Nullish(ResponseData(failure))
         /\ report.value.message =
               UserMessage(MatchedCase(ExtractedCode),
                           Get(Get(failure, "response"), "status"),
                           ExtractedMessage)

\* C24: a failure with a response is handled as server-responded, whether or
\* not it also has a request; one with a request and no response as
\* unreachable; every other one as a local failure whose message quotes the
\* failure's description; and no report belongs to two of the categories.
C24_ThreeShapesInOrder ==
    report # Unset =>
        /\ Truthy(Get(failure, "response")) =>
              (ServerReport /\ ~UnreachableReport /\ ~LocalReport)
        /\ (~Truthy(Get(failure, "response")) /\ Truthy(Get(failure, "request"))) =>
              (UnreachableReport /\ ~LocalReport)
        /\ (~Truthy(Get(failure, "response")) /\ ~Truthy(Get(failure, "request"))) =>
              (LocalReport /\ ~UnreachableReport)

\* C24 witness: a failure carrying both a response and a request has been
\* reported by its provider code, not as unreachable.
C24_Witness ==
    /\ report # Unset
    /\ Truthy(Get(failure, "response"))
    /\ Truthy(Get(failure, "request"))
    /\ ExtractedCode = <<"1037">>
    /\ ServerReport
    /\ ~report.threw

-----------------------------------------------------------------------------
(* Frame properties of the client (checked under SpecOps) *)

\* the fields the constructor sets from the options
CredentialFields ==
    {"consumerKey", "consumerSecret", "shortCode", "passkey", "initiatorName",
     "securityCredential", "environment", "baseUrl"}

SlotFields == {"token", "tokenExpiresAt"}

\* C25: no step of any operation (credential test, body building, token fetch,
\* dispatch, error normalization; ending in success or in failure) changes
\* consumerKey, consumerSecret, shortCode, passkey, initiatorName,
\* securityCredential, environment or baseUrl: they stay as the constructor
\* set them, and token and tokenExpiresAt are the only fields that change.
C25_CredentialsImmutable ==
    /\ [][\A k \in CredentialFields : client'[k] = client[k]]_vars
    /\ [](DOMAIN client = CredentialFields \cup SlotFields)
    /\ [](\A k \in CredentialFields : client[k] = New(options).obj[k])

\* C25 witness: on one client an operation fetched a token and resolved and
\* another was rejected, and the slot no longer is what it was at construction.
C25_Witness ==
    /\ pc[1] = "resolved"
    /\ pc[2] = "rejected"
    /\ Len(gets[1]) = 1
    /\ client.token = S("tokA")
    /\ client.consumerSecret = S("test_secret")

-----------------------------------------------------------------------------
(* Isolation of client instances (checked under SpecPair) *)

Slot(c) == [token |-> c.token, tokenExpiresAt |-> c.tokenExpiresAt]

\* invocation p takes a step
Steps(p) == pc'[p] # pc[p]

\* the invocations whose fetch was issued a token, by the instance they run on
FetchedOn(i) == {q \in Invocations : inst[q] = i /\ resp[q] # Unset}

\* C26: the token slot belongs to one instance: a step of an invocation made
\* on one client leaves the slot of the other client as it was; every token
\* fetch carries the key and secret of the client it is made on; and the token
\* a client sends or holds is one issued to a fetch made on that same client.
C26_SlotPerInstance ==
    /\ [][\A p \in Invocations : Steps(p) =>
            /\ inst'[p] = 1 => Slot(peer') = Slot(peer)
            /\ inst'[p] = 2 => Slot(client') = Slot(client)]_vars
    /\ [](\A p \in Invocations : gets[p] # <<>> =>
            gets[p] = <<TokenRequest([This(inst[p]) EXCEPT
                                        !.token = Null, !.tokenExpiresAt = Null])>>)
    /\ [](\A p \in Invocations : posts[p] # <<>> =>
            \E q \in FetchedOn(inst[p]) :
                posts[p][1].Authorization = <<"Bearer ">> \o IssuedTo(q).s)
    /\ [](\A i \in Instances :
            This(i).token = Null \/ \E q \in FetchedOn(i) : This(i).token = IssuedTo(q))

\* C26 witness: both clients hold a token, each its own, and an invocation on
\* the first client has sent the first client's token.
C26_Witness ==
    /\ inst[1] = 2 /\ inst[2] = 1
    /\ peer.token = IssuedTo(1)
    /\ client.token = IssuedTo(2)
    /\ posts[2] # <<>>
    /\ posts[2][1].Authorization = <<"Bearer ">> \o IssuedTo(2).s

-----------------------------------------------------------------------------
(* Termination of the operations (checked under SpecLive) *)

\* C27: when the transport answers or fails every call it is sent, every
\* operation that was invoked eventually resolves with a payload or rejects
\* with an error, and by then it has made at most one token call and one
\* target call.
C27_EveryOperationTerminates ==
    /\ \A p \in Invocations : (pc[p] # "idle") ~> Finished(p)
    /\ [](\A p \in Invocations :
            /\ Len(gets[p]) <= 1
            /\ Len(posts[p]) <= 1
            /\ Finished(p) => outcome[p].state \in {"resolved", "rejected"}
            /\ pc[p] = "resolved" => outcome[p].value = reply[p]
            /\ pc[p] = "rejected" => outcome[p].error.name \in {"Error", "TypeError"})

\* C27 witness: one operation resolved after a token call and a target call,
\* another was rejected after its one call failed.
C27_Witness ==
    /\ pc[1] = "resolved" /\ Len(gets[1]) = 1 /\ Len(posts[1]) = 1
    /\ pc[2] = "rejected" /\ Len(gets[2]) + Len(posts[2]) = 1

-----------------------------------------------------------------------------
(* The token slot across failed target calls (checked under Spec) *)

\* the step in which the target call of invocation p fails
TargetCallFails(p) == pc[p] = "awaitPost" /\ pc'[p] = "rejected"

\* the target call of p failed, and the token it carried is the cached one
FailedWithCachedToken(p) ==
    /\ pc[p] = "rejected"
    /\ posts[p] # <<>>
    /\ TokenCached
    /\ posts[p][1].Authorization = <<"Bearer ">> \o client.token.s

-----------------------------------------------------------------------------
(* The duplicate labels of the code table (checked under SpecErr) *)

InvalidPinText ==
    "Invalid PIN. The customer entered the wrong M-Pesa PIN. Please ask them to try again with the correct PIN."

InvalidInitiatorText ==
    "Invalid Initiator Information. The 'initiatorName' or 'securityCredential' you provided is incorrect. Please check your credentials on the Safaricom Developer Portal."

\* C29: a failure whose code is 2001 is always reported with the 'Invalid PIN'
\* text of the first clause labelled 2001, whatever else the failure carries;
\* the 'Invalid Initiator Information' text of the later clauses with the same
\* label is the report of no failure at all.
C29_DuplicateLabelNeverReached ==
    report # Unset =>
        /\ (ServerResponded(failure) /\ ExtractedCode = <<"2001">>) =>
              report = [threw |-> FALSE, value |-> Err("Error", <<InvalidPinText>>)]
        /\ ~report.threw => report.value.message # <<InvalidInitiatorText>>

\* C29 witness: a failure carrying code 2001 in its fault, with a message of
\* its own, has been reported as an invalid PIN.
C29_Witness ==
    /\ report # Unset
    /\ ServerResponded(failure)
    /\ Get(Get(ResponseData(failure), "fault"), "code") = S("2001")
    /\ ExtractedCode = <<"2001">>
    /\ report.value.message = <<InvalidPinText>>

-----------------------------------------------------------------------------
(* The STK methods of apis/stk.js beside the class methods of the same     *)
(* name. `client` is an instance of the class; `peer` is an object of the  *)
(* same configuration whose stkPush and stkQuery are those of the mixin.   *)
(* Both have a _getTimestamp method, which a caller may replace by a stub  *)
(* as the test suite does.                                                 *)

\* _getTimestamp() of utils.js when `new Date()` reads the local time `date`
utils_getTimestamp(date) ==
    Str(<<ToString(date.year)>> \o PadStart2(date.month + 1)
        \o PadStart2(date.day) \o PadStart2(date.hours)
        \o PadStart2(date.minutes) \o PadStart2(date.seconds))

\* stk.stkPush with `this` bound to c, when `new Date()` reads `date`: the
\* method never calls c._getTimestamp()
stk_stkPush(c, params, date) ==
    IF ~Truthy(c.passkey) THEN ConfigError("Passkey is required for STK Push.")
    ELSE IF Nullish(params) THEN ParamsError(params, "TransactionType")
    ELSE LET timestamp == utils_getTimestamp(date)
             password == Str(Base64(Concat(c.shortCode, c.passkey, timestamp).s))
         IN Built("/mpesa/stkpush/v1/processrequest",
                  [BusinessShortCode |-> c.shortCode,
                   Password |-> password,
                   Timestamp |-> timestamp,
                   TransactionType |-> Or(Get(params, "TransactionType"),
                                          S("CustomerPayBillOnline")),
                   Amount |-> Get(params, "Amount"),
                   PartyA |-> Get(params, "PhoneNumber"),
                   PartyB |-> c.shortCode,
                   PhoneNumber |-> Get(params, "PhoneNumber"),
                   CallBackURL |-> Get(params, "CallBackURL"),
                   AccountReference |-> Get(params, "AccountReference"),
                   TransactionDesc |-> Get(params, "TransactionDesc")])

\* stk.stkQuery with `this` bound to c
stk_stkQuery(c, params, date) ==
    IF ~Truthy(c.passkey) THEN ConfigError("Passkey is required for STK Query.")
    ELSE IF Nullish(params) THEN ParamsError(params, "CheckoutRequestID")
    ELSE LET timestamp == utils_getTimestamp(date)
             password == Str(Base64(Concat(c.shortCode, c.passkey, timestamp).s))
         IN Built("/mpesa/stkpushquery/v1/query",
                  [BusinessShortCode |-> c.shortCode,
                   Password |-> password,
                   Timestamp |-> timestamp,
                   CheckoutRequestID |-> Get(params, "CheckoutRequestID")])

StkOperations == {"stkPush", "stkQuery"}

\* jest.spyOn(safaricom, "_getTimestamp").mockReturnValue(fixedTimestamp)
\* the text "20230101000000", in the pieces _getTimestamp writes it in
fixedTimestamp ==
    Str(<<"2023", "0", "1", "0", "1", "0", "0", "0", "0", "0", "0">>)

\* what the _getTimestamp property of the client is: the method of the class,
\* or a stub returning a fixed value
TimestampMethods == {Unset, fixedTimestamp}

\* the value this._getTimestamp() returns when `new Date()` reads `date`
OwnTimestamp(stub, date) == IF stub = Unset THEN _getTimestamp(date) ELSE stub

StkCalls ==
    [op : StkOperations, params : ParamSet, date : Dates,
     stub : TimestampMethods]

\* the options of the two objects: with and without a passkey
StkOptions ==
    {[MockOptions EXCEPT !.passkey = pk] : pk \in {Undefined, S("test_passkey")}}

\* the method named `call.op` of instance i, up to its throw or its call of
\* _makeRequest
StkOperation(i) ==
    LET own == OwnTimestamp(call.stub, call.date)
    IN CASE i = 1 /\ call.op = "stkPush" ->
                stkPushAt(client, call.params, own)
         [] i = 1 /\ call.op = "stkQuery" ->
                stkQueryAt(client, call.params, own)
         [] i = 2 /\ call.op = "stkPush" ->
                stk_stkPush(peer, call.params, call.date)
         [] i = 2 /\ call.op = "stkQuery" ->
                stk_stkQuery(peer, call.params, call.date)

\* invocation p calls the method on instance i: as Invoke, with `this` bound
\* to that instance
StkInvoke(p, i) ==
    LET b == StkOperation(i)
    IN IF b.threw
       THEN /\ pc[p] = "idle"
            /\ \A q \in Invocations : q < p => pc[q] # "idle"
            /\ inst' = [inst EXCEPT ![p] = i]
            /\ outcome' = [outcome EXCEPT ![p] =
                              [state |-> "rejected", error |-> b.error]]
            /\ pc' = [pc EXCEPT ![p] = "rejected"]
            /\ UNCHANGED <<options, ctor, client, now, req, resp, tok, gets,
                           posts, reply, call, peer, failure, report>>
       ELSE PairCall(p, i, [endpoint |-> b.endpoint, body |-> b.body])

StkLifetimes == {Num(61)}

InitStk ==
    /\ options \in StkOptions
    /\ ctor = [state |-> "ok"]
    /\ client = New(options).obj
    /\ peer = New(options).obj
    /\ call \in StkCalls
    /\ inst = [p \in Invocations |-> 0]
    /\ now = StartNow
    /\ pc = [p \in Invocations |-> "idle"]
    /\ req = [p \in Invocations |-> Unset]
    /\ resp = [p \in Invocations |-> Unset]
    /\ tok = [p \in Invocations |-> Unset]
    /\ gets = [p \in Invocations |-> <<>>]
    /\ posts = [p \in Invocations |-> <<>>]
    /\ outcome = [p \in Invocations |-> Unset]
    /\ reply = [p \in Invocations |-> Unset]
    /\ failure = Unset
    /\ report = Unset

NextStk ==
    \/ \E p \in Invocations, i \in Instances : StkInvoke(p, i)
    \/ \E p \in Invocations, e \in StkLifetimes : PairGetOk(p, e)
    \/ \E p \in Invocations, f \in OpsFailures : GetFail(p, f)
    \/ \E p \in Invocations, data \in TargetBodies : PostOk(p, data)
    \/ \E p \in Invocations, f \in OpsFailures : PostFail(p, f)
    \/ Tick

SpecStk == InitStk /\ [][NextStk]_vars

\* what invocation p did on being called: the error it threw before any
\* request, or the endpoint and body it handed to _makeRequest
Handed(p) ==
    IF req[p] = Unset
    THEN [threw |-> TRUE, error |-> outcome[p].error]
    ELSE [threw |-> FALSE, endpoint |-> req[p].endpoint, body |-> req[p].body]

\* invocation p was made with the method of the class, q with the mixin's
ClassAndMixin(p, q) == inst[p] = 1 /\ inst[q] = 2

\* C30: the class method and the mixin method of the same name, called on
\* clients of the same configuration with the same params and the same
\* _getTimestamp, throw the same error or hand the same endpoint and the same
\* request body to _makeRequest
C30_MixinEquivalentToClass ==
    \A p, q \in Invocations :
        ClassAndMixin(p, q) => Handed(p) = Handed(q)

\* where the client's _getTimestamp is the method of the class, the two agree
AgreeOnOwnClock ==
    \A p, q \in Invocations :
        (ClassAndMixin(p, q) /\ call.stub = Unset) => Handed(p) = Handed(q)

\* they agree on everything but the timestamp and the password made from it
AgreeButTimestamp ==
    \A p, q \in Invocations :
        ClassAndMixin(p, q) =>
            /\ Handed(p).threw = Handed(q).threw
            /\ Handed(p).threw => Handed(p).error = Handed(q).error
            /\ ~Handed(p).threw =>
                  /\ Handed(p).endpoint = Handed(q).endpoint
                  /\ DOMAIN Handed(p).body.f = DOMAIN Handed(q).body.f
                  /\ \A k \in DOMAIN Handed(p).body.f \ {"Password", "Timestamp"} :
                        Handed(p).body.f[k] = Handed(q).body.f[k]

\* the mixin sends the clock's timestamp whatever the client's method returns
MixinIgnoresStub ==
    \E p, q \in Invocations :
        /\ ClassAndMixin(p, q)
        /\ call.stub = fixedTimestamp
        /\ req[p] # Unset /\ req[q] # Unset
        /\ req[p].body.f.Timestamp = fixedTimestamp
        /\ req[q].body.f.Timestamp = utils_getTimestamp(call.date)
        /\ utils_getTimestamp(call.date) # fixedTimestamp

====
